---------------------------- MODULE Spec2Model ----------------------------
(***************************************************************************)
(* Model of the Wildlife Analytics Engine                                  *)
(* (backend/v3.1/services/enhanced_analytics_engine.py).                   *)
(*                                                                         *)
(* The analyzers are numeric functions over Python floats.  Python floats  *)
(* are IEEE-754 binary64 values, and several properties of the engine      *)
(* (an index staying inside [0, 1], a share being "exactly 0.6") are       *)
(* decided by rounding, so the arithmetic is modelled bit-exactly: a       *)
(* float is a sign, a 53-bit significand and an exponent, and every        *)
(* operation rounds to nearest, ties to even.  A significand does not fit  *)
(* a TLC integer, so it is kept as four 14-bit limbs, least significant    *)
(* first.                                                                  *)
(***************************************************************************)
EXTENDS Integers, Sequences, FiniteSets, TLC

-----------------------------------------------------------------------------
(* Natural numbers of any size: sequences of limbs, least significant first *)

Base == 2^14
LimbBits == 14
MantBits == 53

Max2(a, b) == IF a >= b THEN a ELSE b
Min2(a, b) == IF a <= b THEN a ELSE b

Limb(a, i) == IF i >= 1 /\ i <= Len(a) THEN a[i] ELSE 0

RECURSIVE BTrim(_)
BTrim(a) ==
    IF Len(a) = 0 \/ a[Len(a)] # 0 THEN a ELSE BTrim(SubSeq(a, 1, Len(a) - 1))

BPad(a, n) == [i \in 1..n |-> Limb(a, i)]

BIsZero(a) == \A i \in 1..Len(a) : a[i] = 0

RECURSIVE BAddFrom(_, _, _, _)
BAddFrom(a, b, i, c) ==
    IF i > Max2(Len(a), Len(b))
    THEN IF c = 0 THEN << >> ELSE <<c>>
    ELSE LET s == Limb(a, i) + Limb(b, i) + c
         IN  <<s % Base>> \o BAddFrom(a, b, i + 1, s \div Base)

BAdd(a, b) == BAddFrom(a, b, 1, 0)

\* a - b for a >= b
RECURSIVE BSubFrom(_, _, _, _)
BSubFrom(a, b, i, c) ==
    IF i > Len(a)
    THEN << >>
    ELSE LET s == Limb(a, i) - Limb(b, i) - c
         IN  IF s < 0
             THEN <<s + Base>> \o BSubFrom(a, b, i + 1, 1)
             ELSE <<s>> \o BSubFrom(a, b, i + 1, 0)

BSub(a, b) == BSubFrom(a, b, 1, 0)

\* -1, 0, 1 as a < b, a = b, a > b
RECURSIVE BCmpFrom(_, _, _)
BCmpFrom(a, b, i) ==
    IF i = 0 THEN 0
    ELSE IF Limb(a, i) < Limb(b, i) THEN -1
    ELSE IF Limb(a, i) > Limb(b, i) THEN 1
    ELSE BCmpFrom(a, b, i - 1)

BCmp(a, b) == BCmpFrom(a, b, Max2(Len(a), Len(b)))

\* a * k for 0 <= k <= Base
RECURSIVE BMulSmallFrom(_, _, _, _)
BMulSmallFrom(a, k, i, c) ==
    IF i > Len(a)
    THEN IF c = 0 THEN << >> ELSE <<c>>
    ELSE LET s == a[i] * k + c
         IN  <<s % Base>> \o BMulSmallFrom(a, k, i + 1, s \div Base)

BMulSmall(a, k) == BMulSmallFrom(a, k, 1, 0)

BShlLimbs(a, q) == [i \in 1..q |-> 0] \o a

RECURSIVE BMulFrom(_, _, _)
BMulFrom(a, b, i) ==
    IF i > Len(b) THEN << >>
    ELSE BAdd(BShlLimbs(BMulSmall(a, b[i]), i - 1), BMulFrom(a, b, i + 1))

BMul(a, b) == BMulFrom(a, b, 1)

\* floor(a / d) for 1 <= d <= Base, from the most significant limb down
RECURSIVE BDivSmallFrom(_, _, _, _)
BDivSmallFrom(a, d, i, r) ==
    IF i = 0 THEN << >>
    ELSE LET s == r * Base + a[i]
         IN  BDivSmallFrom(a, d, i - 1, s % d) \o <<s \div d>>

BDivSmall(a, d) == BDivSmallFrom(a, d, Len(a), 0)

BShl(a, k) == BShlLimbs(BMulSmall(a, 2^(k % LimbBits)), k \div LimbBits)

BShr(a, k) ==
    LET q == k \div LimbBits
    IN  IF q >= Len(a) THEN << >>
        ELSE BDivSmall(SubSeq(a, q + 1, Len(a)), 2^(k % LimbBits))

SmallBitLen(n) == IF n = 0 THEN 0 ELSE CHOOSE k \in 1..31 : 2^(k-1) <= n /\ (k = 31 \/ n < 2^k)

BBitLen(a) ==
    LET t == BTrim(a)
    IN  IF Len(t) = 0 THEN 0 ELSE LimbBits * (Len(t) - 1) + SmallBitLen(t[Len(t)])

\* bit i (bit 0 is the least significant) of a
BTestBit(a, i) == ((Limb(a, i \div LimbBits + 1) \div 2^(i % LimbBits)) % 2) = 1

\* whether any of the k least significant bits of a is set
BLowNonzero(a, k) ==
    \/ \E i \in 1..(k \div LimbBits) : Limb(a, i) # 0
    \/ Limb(a, k \div LimbBits + 1) % 2^(k % LimbBits) # 0

\* a mod d for 1 <= d <= Base
RECURSIVE BModSmallFrom(_, _, _, _)
BModSmallFrom(a, d, i, r) ==
    IF i = 0 THEN r ELSE BModSmallFrom(a, d, i - 1, (r * Base + a[i]) % d)

BModSmall(a, d) == BModSmallFrom(a, d, Len(a), 0)

RECURSIVE BFromNat(_)
BFromNat(n) == IF n = 0 THEN << >> ELSE <<n % Base>> \o BFromNat(n \div Base)

-----------------------------------------------------------------------------
(* IEEE-754 binary64 values: s * m * 2^e, with s the sign (0 for zero) and  *)
(* 2^52 <= m < 2^53.  The exponents the engine reaches are far from the     *)
(* overflow and subnormal ranges, which are not modelled.                   *)

MantLimbs == 4

FZero == [s |-> 0, m |-> BPad(<< >>, MantLimbs), e |-> 0]

\* The float nearest to s * n * 2^e (ties to even), for a natural n > 0;
\* sticky says that the exact value lies strictly above n * 2^e (and below
\* (n + 1) * 2^e).
FRound(s, n, e, sticky) ==
    LET len == BBitLen(n)
    IN  IF len <= MantBits
        THEN [s |-> s, m |-> BPad(BShl(n, MantBits - len), MantLimbs),
              e |-> e - (MantBits - len)]
        ELSE LET k    == len - MantBits
                 q    == BShr(n, k)
                 half == BTestBit(n, k - 1)
                 rest == sticky \/ BLowNonzero(n, k - 1)
                 up   == half /\ (rest \/ Limb(q, 1) % 2 = 1)
                 r    == IF up THEN BAdd(q, <<1>>) ELSE q
             IN  IF BBitLen(r) > MantBits
                 THEN [s |-> s, m |-> BPad(BShr(r, 1), MantLimbs), e |-> e + k + 1]
                 ELSE [s |-> s, m |-> BPad(r, MantLimbs), e |-> e + k]

\* float(n) for an integer n
FromInt(n) ==
    IF n = 0 THEN FZero
    ELSE FRound(IF n < 0 THEN -1 ELSE 1, BFromNat(IF n < 0 THEN -n ELSE n), 0, FALSE)

FNeg(x) == [x EXCEPT !.s = -x.s]

FMul(x, y) ==
    IF x.s = 0 \/ y.s = 0 THEN FZero
    ELSE FRound(x.s * y.s, BMul(x.m, y.m), x.e + y.e, FALSE)

\* -1, 0, 1 as |x| < |y|, |x| = |y|, |x| > |y|, for nonzero x and y
FCmpMag(x, y) ==
    IF x.e # y.e THEN (IF x.e < y.e THEN -1 ELSE 1) ELSE BCmp(x.m, y.m)

\* -1, 0, 1 as x < y, x = y, x > y
FCmp(x, y) ==
    IF x.s # y.s THEN (IF x.s < y.s THEN -1 ELSE 1)
    ELSE IF x.s = 0 THEN 0
    ELSE x.s * FCmpMag(x, y)

FLt(x, y) == FCmp(x, y) < 0
FGt(x, y) == FCmp(x, y) > 0
FLe(x, y) == FCmp(x, y) <= 0
FGe(x, y) == FCmp(x, y) >= 0

\* A gap of more than GuardGap binary places between the exponents puts the
\* smaller operand below a quarter of the larger one's last place.
GuardGap == MantBits + 3

FAdd(x, y) ==
    IF x.s = 0 THEN y
    ELSE IF y.s = 0 THEN x
    ELSE IF x.e - y.e > GuardGap THEN x
    ELSE IF y.e - x.e > GuardGap THEN y
    ELSE LET e  == Min2(x.e, y.e)
             a  == BShl(x.m, x.e - e)
             b  == BShl(y.m, y.e - e)
             c  == BCmp(a, b)
         IN  IF x.s = y.s THEN FRound(x.s, BAdd(a, b), e, FALSE)
             ELSE IF c = 0 THEN FZero
             ELSE IF c > 0 THEN FRound(x.s, BSub(a, b), e, FALSE)
             ELSE FRound(y.s, BSub(b, a), e, FALSE)

FSub(x, y) == FAdd(x, FNeg(y))

\* Long division of significands, one quotient bit per step, until the
\* quotient q has DivPlaces significant bits: r is the remainder (r < d) and
\* k the number of bits produced after the first.
DivPlaces == MantBits + 3

\* One step: the next quotient bit, unless the quotient is complete.
DivBit(s, d) ==
    IF BBitLen(s.q) >= DivPlaces THEN s
    ELSE LET r2 == BShl(s.r, 1)
         IN  IF BCmp(r2, d) >= 0
             THEN [q |-> BAdd(BShl(s.q, 1), <<1>>), r |-> BSub(r2, d), k |-> s.k + 1]
             ELSE [q |-> BShl(s.q, 1), r |-> r2, k |-> s.k + 1]

\* n steps, the first half of them done before the second half starts.
RECURSIVE DivSteps(_, _, _)
DivSteps(s, d, n) ==
    IF n = 0 THEN s
    ELSE IF n = 1 THEN DivBit(s, d)
    ELSE CHOOSE t \in {DivSteps(u, d, n - (n \div 2)) : u \in {DivSteps(s, d, n \div 2)}} : TRUE

\* The significands of two floats have MantBits bits each: after at most
\* DivPlaces + 1 steps the quotient is complete.
DivBits(q, r, d, k) == DivSteps([q |-> q, r |-> r, k |-> k], d, DivPlaces + 1)

\* x / y for y # 0
FDiv(x, y) ==
    IF x.s = 0 THEN FZero
    ELSE CHOOSE r \in
             { FRound(x.s * y.s, qr.q, x.e - y.e - qr.k, ~BIsZero(qr.r)) :
                 qr \in {IF BCmp(x.m, y.m) >= 0
                         THEN DivBits(<<1>>, BSub(x.m, y.m), y.m, 0)
                         ELSE DivBits(<< >>, x.m, y.m, 0)} } : TRUE

\* The float nearest to a / b for integers 0 <= a and 1 <= b <= Base: the
\* quotient of a * 2^IntDivPlaces by b has more than MantBits + 2 bits.
IntDivPlaces == 5 * LimbBits

FDivInt(a, b) ==
    IF a = 0 THEN FZero
    ELSE LET n == BShlLimbs(BFromNat(a), IntDivPlaces \div LimbBits)
         IN  FRound(1, BDivSmall(n, b), -IntDivPlaces, BModSmall(n, b) # 0)

Float(s, m, e) == [s |-> s, m |-> m, e |-> e]

FOne == FromInt(1)

-----------------------------------------------------------------------------
(* np.log.  The library returns the float nearest to the natural logarithm  *)
(* of its argument; the table holds that float for every argument the       *)
(* engine can pass within the bounds of the model (the shares count/total   *)
(* and the species richness).  An argument outside the table is an error.   *)

NpLogTable ==
    Float(1, <<    0,     0,     0,  1024>>, -53) :> Float(-1, <<14831, 15336,  9263,  1419>>, -53) @@   \* log(1/2) = -0.6931471805599453
    Float(1, << 5461,  5461,  5461,  1365>>, -54) :> Float(-1, <<  779, 10932, 16039,  1124>>, -52) @@   \* log(1/3) = -1.0986122886681098
    Float(1, << 5461,  5461,  5461,  1365>>, -53) :> Float(-1, << 6221, 13054, 12862,  1660>>, -54) @@   \* log(2/3) = -0.40546510810816444
    Float(1, <<    0,     0,     0,  1024>>, -54) :> Float(-1, <<14831, 15336,  9263,  1419>>, -52) @@   \* log(1/4) = -1.3862943611198906
    Float(1, <<    0,     0,     0,  1536>>, -53) :> Float(-1, << 7058,  1235,  5665,  1178>>, -54) @@   \* log(3/4) = -0.2876820724517809
    Float(1, << 6554,  9830,  6553,  1638>>, -55) :> Float(-1, << 3379,  8118,  1055,  1648>>, -52) @@   \* log(1/5) = -1.6094379124341003
    Float(1, << 6554,  9830,  6553,  1638>>, -54) :> Float(-1, << 8311,   899,  9231,  1876>>, -53) @@   \* log(2/5) = -0.916290731874155
    Float(1, <<13107,  3276, 13107,  1228>>, -53) :> Float(-1, << 5202, 10756,  2799,  1046>>, -53) @@   \* log(3/5) = -0.5108256237659907
    Float(1, << 5461,  5461,  5461,  1365>>, -55) :> Float(-1, << 8194, 10408, 12479,  1834>>, -52) @@   \* log(1/6) = -1.791759469228055
    Float(1, << 9362,  2340,  4681,  1170>>, -55) :> Float(-1, << 6744, 14537, 10026,  1992>>, -52) @@   \* log(1/7) = -1.9459101490553135
    Float(1, << 9362,  2340,  4681,  1170>>, -54) :> Float(-1, <<15712, 15060, 13586,  1282>>, -52) @@   \* log(2/7) = -1.252762968495368
    Float(1, <<14043, 11702,  7021,  1755>>, -54) :> Float(-1, <<11930,  7210,  4358,  1735>>, -53) @@   \* log(3/7) = -0.8472978603872037
    Float(1, <<    0,     0,     0,  1024>>, -55) :> Float(-1, <<11123, 15598, 11043,  1064>>, -51) @@   \* log(1/8) = -2.0794415416798357
    Float(1, <<    0,     0,     0,  1536>>, -54) :> Float(-1, <<10168,  7762, 12096,  2008>>, -53) @@   \* log(3/8) = -0.9808292530117262
    Float(1, << 1820, 12743,  7281,  1820>>, -56) :> Float(-1, <<  779, 10932, 16039,  1124>>, -51) @@   \* log(1/9) = -2.1972245773362196
    Float(1, << 1820, 12743,  7281,  1820>>, -55) :> Float(-1, <<10526,  6003,  2871,  1540>>, -52) @@   \* log(2/9) = -1.5040773967762742
    Float(1, << 6554,  9830,  6553,  1638>>, -56) :> Float(-1, << 5397, 11989, 15131,  1178>>, -51) @@   \* log(1/10) = -2.3025850929940455
    Float(1, <<13107,  3276, 13107,  1228>>, -54) :> Float(-1, <<10017, 13046, 14223,  1232>>, -52) @@   \* log(3/10) = -1.2039728043259361
    Float(1, << 5958,  4468,  7447,  1489>>, -56) :> Float(-1, <<14156,  7676, 11835,  1227>>, -51) @@   \* log(1/11) = -2.3978952727983707
    Float(1, << 5958,  4468,  7447,  1489>>, -55) :> Float(-1, << 4512, 15877, 10846,  1745>>, -52) @@   \* log(2/11) = -1.7047480922384253
    Float(1, << 4468,  7447,  1489,  1117>>, -54) :> Float(-1, <<11149,  4421,  7631,  1330>>, -52) @@   \* log(3/11) = -1.2992829841302609
    Float(1, << 5461,  5461,  5461,  1365>>, -56) :> Float(-1, << 7805, 13134,  4459,  1272>>, -51) @@   \* log(1/12) = -2.4849066497880004
    Float(1, <<15124,  3780,  5041,  1260>>, -56) :> Float(-1, << 3153, 11462,  4162,  1313>>, -51) @@   \* log(1/13) = -2.5649493574615367
    Float(1, <<15124,  3780,  5041,  1260>>, -55) :> Float(-1, <<15274,  7063, 11885,  1916>>, -52) @@   \* log(2/13) = -1.8718021769015913
    Float(1, << 6302, 13863,  7561,  1890>>, -55) :> Float(-1, << 5527, 11992,  8669,  1501>>, -52) @@   \* log(3/13) = -1.466337068793427
    Float(1, << 9362,  2340,  4681,  1170>>, -56) :> Float(-1, <<15272,  7006,  3233,  1351>>, -51) @@   \* log(1/14) = -2.639057329615259
    Float(1, <<14043, 11702,  7021,  1755>>, -55) :> Float(-1, <<13381,  3081,  6811,  1577>>, -52) @@   \* log(3/14) = -1.540445040947149
    Float(1, << 4369,  1092,  4369,  1092>>, -56) :> Float(-1, << 2079,  9525,  8547,  1386>>, -51) @@   \* log(1/15) = -2.70805020110221
    Float(1, << 4369,  1092,  4369,  1092>>, -55) :> Float(-1, <<14755,  9786, 10327,  1031>>, -51) @@   \* log(2/15) = -2.0149030205422647
    Float(1, <<    0,     0,     0,  1024>>, -56) :> Float(-1, <<14831, 15336,  9263,  1419>>, -51) @@   \* log(1/16) = -2.772588722239781
    Float(1, <<    0,     0,     0,  1536>>, -55) :> Float(-1, <<12500,  3357,  2488,  1714>>, -52) @@   \* log(3/16) = -1.6739764335716716
    Float(1, << 7710, 14456,  8673,  1927>>, -57) :> Float(-1, <<16250,  2025,  9916,  1450>>, -51) @@   \* log(1/17) = -2.833213344056216
    Float(1, << 7710, 14456,  8673,  1927>>, -56) :> Float(-1, <<12542,  2287, 11696,  1095>>, -51) @@   \* log(2/17) = -2.1400661634962708
    Float(1, << 5783,  6746, 10601,  1445>>, -55) :> Float(-1, <<15337,  9503,  3792,  1776>>, -52) @@   \* log(3/17) = -1.7346010553881064
    Float(1, << 1820, 12743,  7281,  1820>>, -57) :> Float(-1, << 4487, 10670, 14259,  1479>>, -51) @@   \* log(1/18) = -2.890371757896165
    Float(1, <<    0,     0,     0,  1024>>, -52) :> FZero @@   \* log(1) = 0.0
    Float(1, <<    0,     0,     0,  1024>>, -51) :> Float(1, <<14831, 15336,  9263,  1419>>, -53) @@   \* log(2) = 0.6931471805599453
    Float(1, <<    0,     0,     0,  1536>>, -51) :> Float(1, <<  779, 10932, 16039,  1124>>, -52) @@   \* log(3) = 1.0986122886681098
    Float(1, <<    0,     0,     0,  1024>>, -50) :> Float(1, <<14831, 15336,  9263,  1419>>, -52) @@   \* log(4) = 1.3862943611198906
    Float(1, <<    0,     0,     0,  1280>>, -50) :> Float(1, << 3379,  8118,  1055,  1648>>, -52) @@   \* log(5) = 1.6094379124341003
    Float(1, <<    0,     0,     0,  1536>>, -50) :> Float(1, << 8194, 10408, 12479,  1834>>, -52)   \* log(6) = 1.791759469228055

NpLog(x) == NpLogTable[x]

-----------------------------------------------------------------------------
(* State *)

VARIABLES
    species_counts,   \* Dict[str, int] given to the biodiversity functions:
                      \* its values(), in insertion order
    hourly_activity,  \* Dict[int, int] given to _classify_activity_type
    species_trends,   \* List[Dict] given to generate_conservation_alerts
    species_data,     \* List[EnhancedSpecies] given to generate_conservation_alerts
    detections,       \* List[WildlifeDetection] given to the anomaly detectors and
                      \* to the trend analyzer; what the query for detections gives
    db_available,     \* whether a query on db.session answers (or raises)
    anomaly_detector, \* the AnomalyDetector of the engine: what its scaler and
                      \* its isolation_forest were last fitted on
    requests,         \* the invocations of the engine that run concurrently
    earlier,          \* what the call before the last one did, on the same input
    result            \* what the last call did: [op, raised, value]

inputs == <<species_counts, hourly_activity, species_trends, species_data, detections>>
engine == <<db_available, anomaly_detector, requests, earlier>>
vars == <<species_counts, hourly_activity, species_trends, species_data, detections,
          db_available, anomaly_detector, requests, earlier, result>>

\* The empty dict (a function with no key) and the empty list.
EmptyDict == << >>

NoResult == [op |-> "none", raised |-> FALSE, value |-> "none"]

\* A call either returns a value or raises an exception.
Returned(v) == [raised |-> FALSE, value |-> v]
Raised(x) == [raised |-> TRUE, value |-> x]

\* An estimator that was not fitted yet.
Unfitted == << >>

\* AnomalyDetector.__init__
NewAnomalyDetector == [scaler |-> Unfitted, isolation_forest |-> Unfitted]

\* The engine after EnhancedAnalyticsEngine.__init__, with no invocation
\* running and no call made.
EngineIdle ==
    /\ db_available = TRUE
    /\ anomaly_detector = NewAnomalyDetector
    /\ requests = << >>
    /\ earlier = NoResult

-----------------------------------------------------------------------------
(* Bounds of the model *)

MaxSpecies == 5
MaxCount == 2

RECURSIVE SeqSum(_)
SeqSum(q) == IF Len(q) = 0 THEN 0 ELSE q[1] + SeqSum(Tail(q))

\* x / y of Python for floats x and y: a zero divisor raises.
PyDiv(x, y) == IF y.s = 0 THEN Raised("ZeroDivisionError") ELSE Returned(FDiv(x, y))

\* a / b of Python for integers a >= 0 and b >= 0: the float nearest to the
\* quotient; a zero divisor raises.
PyIntDiv(a, b) == IF b = 0 THEN Raised("ZeroDivisionError") ELSE Returned(FDivInt(a, b))

-----------------------------------------------------------------------------
(* BiodiversityAnalyzer *)

\* ShannonLoop with the sign of the accumulation flipped (shannon += ...).
RECURSIVE ShannonLoopAdding(_, _, _, _)
ShannonLoopAdding(values, total, i, shannon) ==
    IF i > Len(values) THEN Returned(shannon)
    ELSE IF values[i] > 0
    THEN CHOOSE r \in
             { IF proportion.raised THEN proportion
               ELSE ShannonLoopAdding(values, total, i + 1,
                       FAdd(shannon, FMul(proportion.value, NpLog(proportion.value)))) :
                 proportion \in {PyIntDiv(values[i], total)} } : TRUE
    ELSE ShannonLoopAdding(values, total, i + 1, shannon)

\* The loop of calculate_shannon_index from its i-th value on; shannon is the
\* sum so far.
RECURSIVE ShannonLoop(_, _, _, _)
ShannonLoop(values, total, i, shannon) ==
    IF i > Len(values) THEN Returned(shannon)
    ELSE IF values[i] > 0
    THEN CHOOSE r \in
             { IF proportion.raised THEN proportion
               ELSE ShannonLoop(values, total, i + 1,
                       FSub(shannon, FMul(proportion.value, NpLog(proportion.value)))) :
                 proportion \in {PyIntDiv(values[i], total)} } : TRUE
    ELSE ShannonLoop(values, total, i + 1, shannon)

calculate_shannon_index(counts) ==
    IF Len(counts) = 0 THEN Returned(FZero)
    ELSE LET total == SeqSum(counts)
         IN  IF total = 0 THEN Returned(FZero)
             ELSE ShannonLoop(counts, total, 1, FZero)

\* The loop of calculate_simpson_index.
RECURSIVE SimpsonLoop(_, _, _)
SimpsonLoop(values, i, simpson) ==
    IF i > Len(values) THEN simpson
    ELSE IF values[i] > 0
    THEN SimpsonLoop(values, i + 1, FAdd(simpson, FromInt(values[i] * (values[i] - 1))))
    ELSE SimpsonLoop(values, i + 1, simpson)

\* calculate_simpson_index guarding total == 0 where the code guards total <= 1.
SimpsonGuardingZeroOnly(counts) ==
    IF Len(counts) = 0 THEN Returned(FZero)
    ELSE LET total == SeqSum(counts)
         IN  IF total = 0 THEN Returned(FZero)
             ELSE CHOOSE r \in
                 { IF simpson.raised THEN simpson
                   ELSE Returned(FSub(FOne, simpson.value)) :
                     simpson \in {PyDiv(SimpsonLoop(counts, 1, FZero),
                                        FromInt(total * (total - 1)))} } : TRUE

calculate_simpson_index(counts) ==
    IF Len(counts) = 0 THEN Returned(FZero)
    ELSE LET total == SeqSum(counts)
         IN  IF total <= 1 THEN Returned(FZero)
             ELSE CHOOSE r \in
                 { IF simpson.raised THEN simpson
                   ELSE Returned(FSub(FOne, simpson.value)) :
                     simpson \in {PyDiv(SimpsonLoop(counts, 1, FZero),
                                        FromInt(total * (total - 1)))} } : TRUE

SpeciesRichness(counts) == Cardinality({i \in 1..Len(counts) : counts[i] > 0})

\* calculate_species_evenness returning 1.0 for a richness of exactly 1 only;
\* np.log(0) is -inf, which is not > 0.
EvennessGuardingOneOnly(counts) ==
    CHOOSE r \in
        { IF shannon.raised THEN shannon
          ELSE IF species_richness = 1 THEN Returned(FOne)
          ELSE IF species_richness = 0 THEN Returned(FZero)
          ELSE Returned(FDiv(shannon.value, NpLog(FromInt(species_richness)))) :
            shannon \in {calculate_shannon_index(counts)},
            species_richness \in {SpeciesRichness(counts)} } : TRUE

calculate_species_evenness(counts) ==
    CHOOSE r \in
        { IF shannon.raised THEN shannon
          ELSE IF species_richness <= 1 THEN Returned(FOne)
          ELSE LET max_shannon == NpLog(FromInt(species_richness))
               IN  IF FGt(max_shannon, FZero)
                   THEN Returned(FDiv(shannon.value, max_shannon))
                   ELSE Returned(FZero) :
            shannon \in {calculate_shannon_index(counts)},
            species_richness \in {SpeciesRichness(counts)} } : TRUE

RECURSIVE SeqsUpTo(_, _)
SeqsUpTo(S, n) ==
    IF n = 0 THEN {<< >>}
    ELSE LET shorter == SeqsUpTo(S, n - 1)
         IN  shorter \cup {Append(q, x) : q \in {r \in shorter : Len(r) = n - 1}, x \in S}

InitBiodiversity ==
    /\ species_counts \in SeqsUpTo(0..MaxCount, MaxSpecies)
    /\ hourly_activity = EmptyDict
    /\ species_trends = << >>
    /\ species_data = << >>
    /\ detections = << >>
    /\ EngineIdle
    /\ result = NoResult

CallShannon ==
    /\ result.op = "none"
    /\ result' = [op |-> "calculate_shannon_index"] @@ calculate_shannon_index(species_counts)
    /\ UNCHANGED <<inputs, engine>>

CallSimpson ==
    /\ result.op = "none"
    /\ result' = [op |-> "calculate_simpson_index"] @@ calculate_simpson_index(species_counts)
    /\ UNCHANGED <<inputs, engine>>

CallEvenness ==
    /\ result.op = "none"
    /\ result' = [op |-> "calculate_species_evenness"] @@ calculate_species_evenness(species_counts)
    /\ UNCHANGED <<inputs, engine>>

NextBiodiversity == CallShannon \/ CallSimpson \/ CallEvenness

SpecBiodiversity == InitBiodiversity /\ [][NextBiodiversity]_vars

-----------------------------------------------------------------------------
(* Biodiversity claims *)

Total == SeqSum(species_counts)
Richness == SpeciesRichness(species_counts)
Called(op) == result.op = op

\* C2 as stated: for a total greater than 1 calculate_simpson_index returns
\* D with 0 <= D < 1, and for a total of 0 or 1 it returns exactly 0.
C2_SimpsonStrictlyBelowOne ==
    Called("calculate_simpson_index") =>
        /\ ~result.raised
        /\ IF Total > 1
           THEN FGe(result.value, FZero) /\ FLt(result.value, FOne)
           ELSE result.value = FZero

\* C2 amended: for a total greater than 1 calculate_simpson_index returns D
\* with 0 <= D <= 1, where D = 1 exactly when no species has a count of 2 or
\* more; for a total of 0 or 1 it returns exactly 0.
C2_SimpsonRange ==
    Called("calculate_simpson_index") =>
        /\ ~result.raised
        /\ IF Total > 1
           THEN /\ FGe(result.value, FZero)
                /\ FLe(result.value, FOne)
                /\ (result.value = FOne) <=>
                       (\A i \in 1..Len(species_counts) : species_counts[i] <= 1)
           ELSE result.value = FZero

C2_Witness ==
    /\ Called("calculate_simpson_index")
    /\ Total > 1
    /\ result.value = FOne

\* C8 as stated: calculate_shannon_index returns a value >= 0, which is 0 if
\* and only if the mapping is empty or exactly one species has a nonzero
\* count.
C8_ShannonZeroIffEmptyOrOne ==
    Called("calculate_shannon_index") =>
        /\ ~result.raised
        /\ FGe(result.value, FZero)
        /\ (result.value = FZero) <=> (Len(species_counts) = 0 \/ Richness = 1)

\* C8 amended: calculate_shannon_index returns a value >= 0, which is 0 if
\* and only if at most one species has a nonzero count (the empty mapping
\* and the mapping of zero counts included).
C8_ShannonZeroIffAtMostOne ==
    Called("calculate_shannon_index") =>
        /\ ~result.raised
        /\ FGe(result.value, FZero)
        /\ (result.value = FZero) <=> (Richness <= 1)

C8_Witness ==
    /\ Called("calculate_shannon_index")
    /\ Len(species_counts) > 0
    /\ Richness = 0
    /\ result.value = FZero

\* C9: calculate_species_evenness returns a value in [0, 1], and exactly 1
\* whenever at most one species has a nonzero count.
C9_EvennessInUnitInterval ==
    Called("calculate_species_evenness") =>
        /\ ~result.raised
        /\ FGe(result.value, FZero)
        /\ FLe(result.value, FOne)
        /\ (Richness <= 1 => result.value = FOne)

\* C10: on an empty mapping and on a mapping of zero counts the three
\* functions raise nothing and return 0.0, 0.0 and 1.0.
C10_DegenerateFallbacks ==
    (Total = 0 /\ ~Called("none")) =>
        /\ ~result.raised
        /\ Called("calculate_shannon_index") => result.value = FZero
        /\ Called("calculate_simpson_index") => result.value = FZero
        /\ Called("calculate_species_evenness") => result.value = FOne

C10_Witness ==
    /\ Called("calculate_species_evenness")
    /\ Len(species_counts) > 0
    /\ Total = 0
    /\ result = [op |-> "calculate_species_evenness", raised |-> FALSE, value |-> FOne]

-----------------------------------------------------------------------------
(* ActivityPatternAnalyzer._classify_activity_type *)

MaxActiveHours == 2
MaxHourCount == 3

\* The hours a histogram of the model may hold: the first and the last hour
\* of every period of the day, and hours 9 and 16.
SampleHours == {0, 4, 5, 7, 8, 9, 16, 17, 18, 20, 21, 23}

dawn_hours == <<5, 6, 7>>
day_hours == <<8, 9, 10, 11, 12, 13, 14, 15, 16, 17>>
dusk_hours == <<18, 19, 20>>
night_hours == <<21, 22, 23, 0, 1, 2, 3, 4>>

\* d.get(k, 0)
DictGet(d, k) == IF k \in DOMAIN d THEN d[k] ELSE 0

\* sum(d.values())
RECURSIVE DictSum(_)
DictSum(d) ==
    IF DOMAIN d = {} THEN 0
    ELSE LET k == CHOOSE x \in DOMAIN d : TRUE
         IN  d[k] + DictSum([x \in DOMAIN d \ {k} |-> d[x]])

\* sum(hourly_activity.get(h, 0) for h in hours)
RECURSIVE SumOver(_, _)
SumOver(d, hours) ==
    IF Len(hours) = 0 THEN 0 ELSE DictGet(d, Head(hours)) + SumOver(d, Tail(hours))

\* The literals 0.6 and 0.5
DayNightThreshold == FDivInt(6, 10)
TwilightThreshold == FDivInt(5, 10)

\* _classify_activity_type from its shares on, with day_activity >= 0.6 for
\* day_activity > 0.6.
ClassifySharesDayAtLeast(hourly, total_activity) ==
    LET dawn_activity  == PyIntDiv(SumOver(hourly, dawn_hours), total_activity)
        day_activity   == PyIntDiv(SumOver(hourly, day_hours), total_activity)
        dusk_activity  == PyIntDiv(SumOver(hourly, dusk_hours), total_activity)
        night_activity == PyIntDiv(SumOver(hourly, night_hours), total_activity)
    IN  IF dawn_activity.raised THEN dawn_activity
        ELSE IF FGe(day_activity.value, DayNightThreshold) THEN Returned("diurnal")
        ELSE IF FGt(night_activity.value, DayNightThreshold) THEN Returned("nocturnal")
        ELSE IF FGt(FAdd(dawn_activity.value, dusk_activity.value), TwilightThreshold)
             THEN Returned("crepuscular")
        ELSE Returned("cathemeral")

\* _classify_activity_type from its shares on: the four shares of the total
\* and the thresholds.  All four divisions have the same divisor.
ClassifyShares(hourly, total_activity) ==
    LET dawn_activity  == PyIntDiv(SumOver(hourly, dawn_hours), total_activity)
        day_activity   == PyIntDiv(SumOver(hourly, day_hours), total_activity)
        dusk_activity  == PyIntDiv(SumOver(hourly, dusk_hours), total_activity)
        night_activity == PyIntDiv(SumOver(hourly, night_hours), total_activity)
    IN  IF dawn_activity.raised THEN dawn_activity
        ELSE IF FGt(day_activity.value, DayNightThreshold) THEN Returned("diurnal")
        ELSE IF FGt(night_activity.value, DayNightThreshold) THEN Returned("nocturnal")
        ELSE IF FGt(FAdd(dawn_activity.value, dusk_activity.value), TwilightThreshold)
             THEN Returned("crepuscular")
        ELSE Returned("cathemeral")

\* _classify_activity_type without its total_activity == 0 guard.
ClassifyWithoutZeroGuard(hourly) ==
    IF DOMAIN hourly = {} THEN Returned("unknown")
    ELSE ClassifyShares(hourly, DictSum(hourly))

_classify_activity_type(hourly) ==
    IF DOMAIN hourly = {} THEN Returned("unknown")
    ELSE LET total_activity == DictSum(hourly)
         IN  IF total_activity = 0 THEN Returned("unknown")
             ELSE ClassifyShares(hourly, total_activity)

Histograms ==
    UNION {[H -> 0..MaxHourCount] :
               H \in {S \in SUBSET SampleHours : Cardinality(S) <= MaxActiveHours}}

InitActivity ==
    /\ species_counts = << >>
    /\ hourly_activity \in Histograms
    /\ species_trends = << >>
    /\ species_data = << >>
    /\ detections = << >>
    /\ EngineIdle
    /\ result = NoResult

CallClassify ==
    /\ result.op = "none"
    /\ result' = [op |-> "_classify_activity_type"] @@ _classify_activity_type(hourly_activity)
    /\ UNCHANGED <<inputs, engine>>

NextActivity == CallClassify

SpecActivity == InitActivity /\ [][NextActivity]_vars

-----------------------------------------------------------------------------
(* Activity classification claims *)

ActivityLabels == {"diurnal", "nocturnal", "crepuscular", "cathemeral", "unknown"}

\* The detections of the histogram that fall in hours lo..hi.
RECURSIVE CountIn(_, _)
CountIn(lo, hi) ==
    IF lo > hi THEN 0 ELSE DictGet(hourly_activity, lo) + CountIn(lo + 1, hi)

HistTotal == CountIn(0, 23)
DawnCount == CountIn(5, 7)
DayCount == CountIn(8, 17)
DuskCount == CountIn(18, 20)
NightCount == CountIn(21, 23) + CountIn(0, 4)

\* C6: _classify_activity_type returns, for every non-negative histogram,
\* one of the five labels, and returns "unknown" if and only if the
\* histogram's total is 0.
C6_ClassificationTotal ==
    Called("_classify_activity_type") =>
        /\ ~result.raised
        /\ result.value \in ActivityLabels
        /\ (result.value = "unknown") <=> (HistTotal = 0)

C6_Witness ==
    /\ Called("_classify_activity_type")
    /\ DOMAIN hourly_activity # {}
    /\ HistTotal = 0
    /\ result.value = "unknown"

\* C7: for a total above 0 the label is "diurnal" when the day share exceeds
\* 0.6, else "nocturnal" when the night share exceeds 0.6, else
\* "crepuscular" when the dawn and dusk shares together exceed 0.5, else
\* "cathemeral"; the comparisons are strict, so a day share of exactly 0.6
\* is not "diurnal", and a histogram inside hours 9..16 is "diurnal".
C7_ClassificationOrder ==
    (Called("_classify_activity_type") /\ HistTotal > 0) =>
        /\ ~result.raised
        /\ result.value =
               IF 10 * DayCount > 6 * HistTotal THEN "diurnal"
               ELSE IF 10 * NightCount > 6 * HistTotal THEN "nocturnal"
               ELSE IF 2 * (DawnCount + DuskCount) > HistTotal THEN "crepuscular"
               ELSE "cathemeral"
        /\ (10 * DayCount = 6 * HistTotal) => result.value # "diurnal"
        /\ (CountIn(9, 16) = HistTotal) => result.value = "diurnal"

C7_Witness ==
    /\ Called("_classify_activity_type")
    /\ HistTotal > 0
    /\ 10 * DayCount = 6 * HistTotal
    /\ result.value = "cathemeral"

-----------------------------------------------------------------------------
(* ConservationAlertSystem.generate_conservation_alerts *)

MaxTrends == 2

\* None, among the species ids (the ids of the catalog are primary keys,
\* 1 and above).
None == -1

\* trend['confidence_level'] and trend['trend_percentage'] are floats rounded
\* to two decimals: they are kept in hundredths.
Hundredths(n) == 100 * n

\* The species catalog of the model: one species for each combination of
\* is_endangered and is_protected.
Catalog ==
    << [id |-> 1, name |-> "tiger", is_endangered |-> TRUE,  is_protected |-> TRUE],
       [id |-> 2, name |-> "rhino", is_endangered |-> TRUE,  is_protected |-> FALSE],
       [id |-> 3, name |-> "otter", is_endangered |-> FALSE, is_protected |-> TRUE],
       [id |-> 4, name |-> "deer",  is_endangered |-> FALSE, is_protected |-> FALSE] >>

\* The trends of the model: a species of the catalog, a species id beyond
\* the catalog, or no species id; values on and above the two thresholds.
Trends ==
    [species_id       : {None} \cup 1..(Len(Catalog) + 1),
     trend_direction  : {"increasing", "decreasing", "stable"},
     trend_percentage : {Hundredths(30), Hundredths(45)},
     confidence_level : {Hundredths(60), Hundredths(75)}]

\* {s.id: s for s in species_data}: a later entry replaces an earlier one.
SpeciesLookup(data) ==
    [id \in {data[i].id : i \in 1..Len(data)} |->
        data[CHOOSE i \in 1..Len(data) :
                 /\ data[i].id = id
                 /\ \A j \in (i + 1)..Len(data) : data[j].id # id]]

PopulationDeclineActions ==
    << "Increase monitoring frequency", "Review habitat conditions",
       "Consider intervention measures", "Notify conservation authorities" >>

BehavioralAnomalyActions ==
    << "Investigate environmental changes", "Check camera functionality",
       "Review seasonal patterns", "Consult with wildlife experts" >>

PopulationDeclineAlert(alerts, species_id, species, trend, now) ==
    [id |-> Len(alerts) + 1, species_id |-> species_id, species_name |-> species.name,
     alert_type |-> "population_decline", severity |-> "critical",
     description |-> <<"Declining population trend detected for endangered species ",
                       species.name>>,
     recommended_actions |-> PopulationDeclineActions,
     created_at |-> now, trend_data |-> trend]

BehavioralAnomalyAlert(alerts, species_id, species, trend, now) ==
    [id |-> Len(alerts) + 1, species_id |-> species_id, species_name |-> species.name,
     alert_type |-> "behavioral_anomaly", severity |-> "high",
     description |-> <<"Significant decline in ", species.name, " detections">>,
     recommended_actions |-> BehavioralAnomalyActions,
     created_at |-> now, trend_data |-> trend]

\* The loop body with the first rule not testing the confidence level.
AlertStepWithoutConfidence(alerts, trend, species_lookup, now) ==
    LET species_id == trend.species_id
    IN  IF species_id = None \/ species_id = 0 \/ species_id \notin DOMAIN species_lookup
        THEN alerts
        ELSE LET species == species_lookup[species_id]
             IN  IF /\ species.is_endangered
                    /\ trend.trend_direction = "decreasing"
                 THEN Append(alerts,
                          PopulationDeclineAlert(alerts, species_id, species, trend, now))
                 ELSE IF /\ species.is_protected
                         /\ trend.trend_direction = "decreasing"
                         /\ trend.trend_percentage > Hundredths(30)
                 THEN Append(alerts,
                          BehavioralAnomalyAlert(alerts, species_id, species, trend, now))
                 ELSE alerts

\* The loop body with confidence_level >= 60 for confidence_level > 60.
AlertStepAtLeastSixty(alerts, trend, species_lookup, now) ==
    LET species_id == trend.species_id
    IN  IF species_id = None \/ species_id = 0 \/ species_id \notin DOMAIN species_lookup
        THEN alerts
        ELSE LET species == species_lookup[species_id]
             IN  IF /\ species.is_endangered
                    /\ trend.trend_direction = "decreasing"
                    /\ trend.confidence_level >= Hundredths(60)
                 THEN Append(alerts,
                          PopulationDeclineAlert(alerts, species_id, species, trend, now))
                 ELSE IF /\ species.is_protected
                         /\ trend.trend_direction = "decreasing"
                         /\ trend.trend_percentage > Hundredths(30)
                 THEN Append(alerts,
                          BehavioralAnomalyAlert(alerts, species_id, species, trend, now))
                 ELSE alerts

\* The loop body with the second rule under "if" for "elif".
AlertStepBothRules(alerts, trend, species_lookup, now) ==
    LET species_id == trend.species_id
    IN  IF species_id = None \/ species_id = 0 \/ species_id \notin DOMAIN species_lookup
        THEN alerts
        ELSE LET species == species_lookup[species_id]
                 first   == IF /\ species.is_endangered
                               /\ trend.trend_direction = "decreasing"
                               /\ trend.confidence_level > Hundredths(60)
                            THEN Append(alerts,
                                     PopulationDeclineAlert(alerts, species_id, species, trend, now))
                            ELSE alerts
             IN  IF /\ species.is_protected
                    /\ trend.trend_direction = "decreasing"
                    /\ trend.trend_percentage > Hundredths(30)
                 THEN Append(first,
                          BehavioralAnomalyAlert(first, species_id, species, trend, now))
                 ELSE first

\* The body of the loop over species_trends: the alerts after this trend.
AlertStep(alerts, trend, species_lookup, now) ==
    LET species_id == trend.species_id
    IN  IF species_id = None \/ species_id = 0 \/ species_id \notin DOMAIN species_lookup
        THEN alerts
        ELSE LET species == species_lookup[species_id]
             IN  IF /\ species.is_endangered
                    /\ trend.trend_direction = "decreasing"
                    /\ trend.confidence_level > Hundredths(60)
                 THEN Append(alerts,
                          PopulationDeclineAlert(alerts, species_id, species, trend, now))
                 ELSE IF /\ species.is_protected
                         /\ trend.trend_direction = "decreasing"
                         /\ trend.trend_percentage > Hundredths(30)
                 THEN Append(alerts,
                          BehavioralAnomalyAlert(alerts, species_id, species, trend, now))
                 ELSE alerts

\* The loop over species_trends, were it run from the last trend to the first.
RECURSIVE AlertLoopBackwards(_, _, _, _, _)
AlertLoopBackwards(alerts, trends, i, species_lookup, now) ==
    IF i > Len(trends) THEN alerts
    ELSE AlertLoopBackwards(AlertStep(alerts, trends[Len(trends) + 1 - i], species_lookup, now),
                            trends, i + 1, species_lookup, now)

RECURSIVE AlertLoop(_, _, _, _, _)
AlertLoop(alerts, trends, i, species_lookup, now) ==
    IF i > Len(trends) THEN alerts
    ELSE AlertLoop(AlertStep(alerts, trends[i], species_lookup, now),
                   trends, i + 1, species_lookup, now)

\* The function without the test that skips a trend: species_lookup[species_id]
\* raises KeyError for a species id that is no key.
GenerateAlertsWithoutSkip(trends, data, now) ==
    IF \E i \in 1..Len(trends) : trends[i].species_id \notin DOMAIN SpeciesLookup(data)
    THEN Raised("KeyError")
    ELSE Returned(AlertLoop(<< >>, trends, 1, SpeciesLookup(data), now))

\* now is what datetime.utcnow() returns during the call.
generate_conservation_alerts(trends, data, now) ==
    Returned(AlertLoop(<< >>, trends, 1, SpeciesLookup(data), now))

\* The times a call may be made at.
CallTimes == {1, 2}

InitAlerts ==
    /\ species_counts = << >>
    /\ hourly_activity = EmptyDict
    /\ species_trends \in SeqsUpTo(Trends, MaxTrends)
    /\ species_data = Catalog
    /\ detections = << >>
    /\ EngineIdle
    /\ result = NoResult

CallGenerateAlerts ==
    /\ result.op = "none"
    /\ \E now \in CallTimes :
           result' = [op |-> "generate_conservation_alerts"]
                         @@ generate_conservation_alerts(species_trends, species_data, now)
    /\ UNCHANGED <<inputs, engine>>

NextAlerts == CallGenerateAlerts

SpecAlerts == InitAlerts /\ [][NextAlerts]_vars

-----------------------------------------------------------------------------
(* Conservation alert claims *)

Range(list) == {list[i] : i \in 1..Len(list)}

\* The entries of a list that satisfy P.
Count(list, P(_)) == Cardinality({i \in 1..Len(list) : P(list[i])})

InCatalog(id) == \E i \in 1..Len(species_data) : species_data[i].id = id
Profile(id) == species_data[CHOOSE i \in 1..Len(species_data) : species_data[i].id = id]

\* Rule A and Rule B of the spec, on a trend.
RuleA(t) ==
    /\ InCatalog(t.species_id)
    /\ Profile(t.species_id).is_endangered
    /\ t.trend_direction = "decreasing"
    /\ t.confidence_level > 6000

RuleB(t) ==
    /\ InCatalog(t.species_id)
    /\ Profile(t.species_id).is_protected
    /\ t.trend_direction = "decreasing"
    /\ t.trend_percentage > 3000

Occurrences(t) == Count(species_trends, LAMBDA x : x = t)
AlertsOn(t, severity) ==
    Count(result.value, LAMBDA a : a.trend_data = t /\ a.severity = severity)
AllAlertsOn(t) == Count(result.value, LAMBDA a : a.trend_data = t)

\* C4: a trend gets a "critical" population-decline alert exactly when its
\* species is in the catalog and endangered, its direction is "decreasing"
\* and its confidence level is above 60; each such trend gets exactly one
\* alert, with the four recommended actions of Rule A.
C4_CriticalExactlyOnRuleA ==
    Called("generate_conservation_alerts") =>
        /\ ~result.raised
        /\ \A t \in Range(species_trends) :
               /\ AlertsOn(t, "critical") = IF RuleA(t) THEN Occurrences(t) ELSE 0
               /\ RuleA(t) => AllAlertsOn(t) = Occurrences(t)
        /\ \A i \in 1..Len(result.value) :
               result.value[i].severity = "critical" =>
                   /\ result.value[i].alert_type = "population_decline"
                   /\ Len(result.value[i].recommended_actions) = 4
                   /\ result.value[i].recommended_actions[4] = "Notify conservation authorities"

C4_Witness ==
    /\ Called("generate_conservation_alerts")
    /\ Len(species_trends) = 1
    /\ RuleA(species_trends[1])
    /\ species_trends[1].confidence_level = 7500
    /\ Len(result.value) = 1
    /\ result.value[1].severity = "critical"

\* C5: every trend gets at most one alert; it gets a "high"
\* behavioral-anomaly alert exactly when Rule A does not match and its
\* species is protected, its direction is "decreasing" and its magnitude is
\* above 30; no trend gets both a "critical" and a "high" alert.
C5_RulesExclusive ==
    Called("generate_conservation_alerts") =>
        /\ ~result.raised
        /\ \A t \in Range(species_trends) :
               /\ AllAlertsOn(t) <= Occurrences(t)
               /\ AlertsOn(t, "high") =
                      IF ~RuleA(t) /\ RuleB(t) THEN Occurrences(t) ELSE 0
               /\ ~(AlertsOn(t, "critical") > 0 /\ AlertsOn(t, "high") > 0)
        /\ \A i \in 1..Len(result.value) :
               /\ result.value[i].trend_data \in Range(species_trends)
               /\ result.value[i].severity = "high" =>
                      result.value[i].alert_type = "behavioral_anomaly"

C5_Witness ==
    /\ Called("generate_conservation_alerts")
    /\ Len(species_trends) = 1
    /\ RuleA(species_trends[1])
    /\ RuleB(species_trends[1])
    /\ Len(result.value) = 1

\* C16: a trend without a species id, or with one that is not in the
\* catalog, is skipped: the call does not raise and no alert carries the
\* trend; every alert is about a species of the catalog that has a trend.
C16_UnknownSpeciesSkipped ==
    Called("generate_conservation_alerts") =>
        /\ ~result.raised
        /\ \A t \in Range(species_trends) :
               (t.species_id = None \/ ~InCatalog(t.species_id)) => AllAlertsOn(t) = 0
        /\ \A i \in 1..Len(result.value) :
               /\ InCatalog(result.value[i].species_id)
               /\ \E t \in Range(species_trends) : t.species_id = result.value[i].species_id

C16_Witness ==
    /\ Called("generate_conservation_alerts")
    /\ Len(species_trends) = 2
    /\ species_trends[1].species_id = None
    /\ species_trends[2].species_id # None
    /\ ~InCatalog(species_trends[2].species_id)
    /\ \A i \in 1..2 : species_trends[i].trend_direction = "decreasing"
    /\ result.value = << >>

\* C28: every alert embeds the trend it was made from, and that trend is
\* "decreasing"; there are at most as many alerts as trends; the ids of the
\* alerts are 1..n in the order of the output, and the alerts follow the
\* order of the trends they were made from.
C28_AlertsFollowTrends ==
    Called("generate_conservation_alerts") =>
        /\ ~result.raised
        /\ Len(result.value) <= Len(species_trends)
        /\ \A i \in 1..Len(result.value) :
               /\ result.value[i].id = i
               /\ result.value[i].trend_data.trend_direction = "decreasing"
        /\ [i \in 1..Len(result.value) |-> result.value[i].trend_data]
               = SelectSeq(species_trends, LAMBDA t : RuleA(t) \/ RuleB(t))

\* Two alerts on two different trends, the first a "high" one and the second
\* a "critical" one.
C28_Witness ==
    /\ Called("generate_conservation_alerts")
    /\ Len(species_trends) = 2
    /\ Len(result.value) = 2
    /\ result.value[1].trend_data = species_trends[1]
    /\ result.value[1].trend_data # result.value[2].trend_data
    /\ result.value[1].severity = "high"
    /\ result.value[2].severity = "critical"
    /\ result.value[2].id = 2

-----------------------------------------------------------------------------
(* AnomalyDetector *)

MaxDetections == 21
MaxKinds == 6
MaxLow == 2
MaxDays == 5

\* The names of the species of the model, by id.
SpeciesNames == <<"tiger", "rhino", "otter", "deer", "owl", "hare", "wolf", "stoat">>

\* The detection without a species comes second among the kinds of a list.
KindSpecies(k) == IF k = 2 THEN None ELSE k

\* detection.confidence, in hundredths.
HighConfidence == 90
LowConfidences == {10, 25, 35}

\* The detection lists of the model: n detections whose species take turns
\* among kinds species (one of them no species) and whose days take turns
\* among days calendar days; the first low of them have the confidence
\* lowconf, the others HighConfidence.
Detection(i, kinds, low, lowconf, days) ==
    [species_id |-> KindSpecies(((i - 1) % kinds) + 1),
     confidence |-> IF i <= low THEN lowconf ELSE HighConfidence,
     day        |-> 1 + ((i - 1) % days),
     hour       |-> 12]

DetectionLists ==
    {[i \in 1..n |-> Detection(i, kinds, low, lowconf, days)] :
        n \in 0..MaxDetections, kinds \in 1..MaxKinds, low \in 0..MaxLow,
        lowconf \in LowConfidences, days \in 1..MaxDays}

\* detection.species.name if detection.species else 'Unknown'
SpeciesName(d) == IF d.species_id = None THEN "Unknown" ELSE SpeciesNames[d.species_id]

\* The keys of a dict filled in the order of the list, in insertion order.
RECURSIVE KeysInOrder(_, _, _)
KeysInOrder(list, i, keys) ==
    IF i > Len(list) THEN keys
    ELSE IF \E j \in 1..Len(keys) : keys[j] = list[i]
    THEN KeysInOrder(list, i + 1, keys)
    ELSE KeysInOrder(list, i + 1, Append(keys, list[i]))

\* species_stats[species_name]['confidences']
ConfidencesOf(dets, species_name) ==
    LET of_species == SelectSeq(dets, LAMBDA d : SpeciesName(d) = species_name)
    IN  [j \in 1..Len(of_species) |-> of_species[j].confidence]

MinSpeciesEvents == 20
MinSpeciesConfidences == 5

\* The loop over species_stats.items().  The loop binds the name stats to
\* the dict of the species, which hides the module scipy.stats in the whole
\* function: stats.zscore looks up zscore on a dict and raises
\* AttributeError, for the first species that has 5 or more confidences.
RECURSIVE SpeciesStatsLoop(_, _, _, _)
SpeciesStatsLoop(dets, names, i, anomalies) ==
    IF i > Len(names) THEN Returned(anomalies)
    ELSE IF Len(ConfidencesOf(dets, names[i])) < MinSpeciesConfidences
    THEN SpeciesStatsLoop(dets, names, i + 1, anomalies)
    ELSE Raised("AttributeError")

detect_species_anomalies(dets) ==
    IF Len(dets) < MinSpeciesEvents THEN Returned(<< >>)
    ELSE SpeciesStatsLoop(dets,
             KeysInOrder([i \in 1..Len(dets) |-> SpeciesName(dets[i])], 1, << >>),
             1, << >>)

MinTemporalEvents == 10
MinTemporalDays == 5

\* daily_stats: the days of the detections, in ascending order, with the
\* number of detections of each.
DaysOf(dets) == {dets[i].day : i \in 1..Len(dets)}

RECURSIVE SortedDays(_)
SortedDays(days) ==
    IF days = {} THEN << >>
    ELSE LET first == CHOOSE d \in days : \A e \in days : d <= e
         IN  <<first>> \o SortedDays(days \ {first})

DailyCount(dets, day) == Cardinality({i \in 1..Len(dets) : dets[i].day = day})

\* x.mode().iloc[0]: the most frequent hour of the day's detections, the
\* smallest one when several are as frequent.
HourMode(dets, day) ==
    LET times(h) == Cardinality({i \in 1..Len(dets) :
                                    dets[i].day = day /\ dets[i].hour = h})
        hours == {dets[i].hour : i \in {k \in 1..Len(dets) : dets[k].day = day}}
    IN  CHOOSE h \in hours :
            \A g \in hours : times(g) < times(h) \/ (times(g) = times(h) /\ h <= g)

RECURSIVE ConfidenceSum(_, _, _)
ConfidenceSum(dets, day, i) ==
    IF i > Len(dets) THEN 0
    ELSE (IF dets[i].day = day THEN dets[i].confidence ELSE 0)
             + ConfidenceSum(dets, day, i + 1)

\* daily_stats[['species_id', 'confidence', 'hour']].values: one row for
\* every day, in the order of the days. The mean confidence of a day is kept
\* as the sum of its confidences, the count being the first column.
DailyFeatures(dets) ==
    LET days == SortedDays(DaysOf(dets))
    IN  [i \in 1..Len(days) |->
            <<DailyCount(dets, days[i]), ConfidenceSum(dets, days[i], 1),
              HourMode(dets, days[i])>>]

\* StandardScaler.transform: the rows of features, centred and scaled with
\* the means and deviations of the rows the scaler was fitted on. Two rows are
\* equal after scaling exactly when they were equal before.
Scaled(fitted_on, features) == [scaler |-> fitted_on, features |-> features]

RowsOf(features) == {features[i] : i \in DOMAIN features}

\* The row that occurs once when all other rows are one and the same row.
OddRows(features) ==
    {i \in DOMAIN features :
        /\ Cardinality(RowsOf(features)) = 2
        /\ Len(features) >= 3
        /\ \A k \in DOMAIN features : features[k] = features[i] => k = i}

contamination_percent == 10

\* IsolationForest(contamination=0.1, random_state=42).predict on the rows
\* of X by a forest fitted on the rows of fitted_on: the sets of rows that can
\* be scored -1. A row is scored -1 when its score is strictly below the
\* offset, which is the 10th percentile of the scores of the fitted rows.
\*  - Fitted on rows that are all equal, every tree is a single leaf, every
\*    score is the offset and no row is scored -1.
\*  - Fitted on rows of which one differs from all others, which are equal,
\*    and predicting them, the one that differs is scored -1 and no other.
\*  - Predicting the rows the forest was fitted on, the rows below the 10th
\*    percentile are at most 1 + (n - 1) \div 10.
\*  - Otherwise the scores depend on the trees drawn.
ForestPredict(fitted_on, X) ==
    IF Cardinality(RowsOf(fitted_on.features)) <= 1 THEN {{}}
    ELSE IF fitted_on # X THEN SUBSET DOMAIN X.features
    ELSE IF OddRows(X.features) # {} /\ Len(X.features) <= contamination_percent
    THEN {OddRows(X.features)}
    ELSE {P \in SUBSET DOMAIN X.features :
             Cardinality(P) <= 1 + ((Len(X.features) - 1) * contamination_percent) \div 100}

\* The days that self.isolation_forest.fit_predict(self.scaler.fit_transform(
\* features)) can score -1 when no other call uses the detector meanwhile.
FitPredictOutliers(dets) ==
    LET days == SortedDays(DaysOf(dets))
        features_scaled == Scaled(DailyFeatures(dets), DailyFeatures(dets))
    IN  {{days[i] : i \in P} : P \in ForestPredict(features_scaled, features_scaled)}

\* The detector after detect_temporal_anomalies: past the two thresholds its
\* scaler and its forest are fitted on the rows of this call.
DetectorAfterTemporal(detector, dets) ==
    IF Len(dets) < MinTemporalEvents \/ Cardinality(DaysOf(dets)) < MinTemporalDays
    THEN detector
    ELSE [scaler |-> DailyFeatures(dets),
          isolation_forest |-> Scaled(DailyFeatures(dets), DailyFeatures(dets))]

\* The loop over daily_stats: one record for every day the isolation forest
\* scored -1.
RECURSIVE TemporalLoop(_, _, _, _)
TemporalLoop(dets, days, i, outliers) ==
    IF i > Len(days) THEN << >>
    ELSE IF days[i] \in outliers
    THEN <<[date |-> days[i], type |-> "temporal", severity |-> "medium",
            metadata |-> [detection_count |-> DailyCount(dets, days[i]),
                          peak_hour |-> 12]]>>
             \o TemporalLoop(dets, days, i + 1, outliers)
    ELSE TemporalLoop(dets, days, i + 1, outliers)

\* The detector without the threshold on the number of days.
DetectTemporalWithoutDayThreshold(dets, outliers) ==
    IF Len(dets) < MinTemporalEvents THEN Returned(<< >>)
    ELSE Returned(TemporalLoop(dets, SortedDays(DaysOf(dets)), 1, outliers))

\* outliers: the days isolation_forest.fit_predict scores -1.
detect_temporal_anomalies(dets, outliers) ==
    IF Len(dets) < MinTemporalEvents THEN Returned(<< >>)
    ELSE IF Cardinality(DaysOf(dets)) < MinTemporalDays THEN Returned(<< >>)
    ELSE Returned(TemporalLoop(dets, SortedDays(DaysOf(dets)), 1, outliers))

InitAnomaly ==
    /\ species_counts = << >>
    /\ hourly_activity = EmptyDict
    /\ species_trends = << >>
    /\ species_data = << >>
    /\ detections \in DetectionLists
    /\ EngineIdle
    /\ result = NoResult

CallDetectSpecies ==
    /\ result.op = "none"
    /\ result' = [op |-> "detect_species_anomalies"] @@ detect_species_anomalies(detections)
    /\ UNCHANGED <<inputs, engine>>

\* The isolation forest is library code: which days it scores -1 is one of
\* FitPredictOutliers.
CallDetectTemporal ==
    /\ result.op = "none"
    /\ \E outliers \in FitPredictOutliers(detections) :
           result' = [op |-> "detect_temporal_anomalies"]
                         @@ detect_temporal_anomalies(detections, outliers)
    /\ anomaly_detector' = DetectorAfterTemporal(anomaly_detector, detections)
    /\ UNCHANGED <<inputs, db_available, requests, earlier>>

NextAnomaly == CallDetectSpecies \/ CallDetectTemporal

SpecAnomaly == InitAnomaly /\ [][NextAnomaly]_vars

-----------------------------------------------------------------------------
(* Anomaly detection claims *)

\* Whether the z-score of the i-th detection's confidence among the
\* confidences of its species is above 2.0 in absolute value: with n
\* confidences of sum s and sum of squares q, (n x - s)^2 > 4 (n q - s^2).
ZScoreAboveTwo(i) ==
    LET confs == ConfidencesOf(detections, SpeciesName(detections[i]))
        n == Len(confs)
        sum == SeqSum(confs)
        squares == SeqSum([j \in 1..n |-> confs[j] * confs[j]])
        x == detections[i].confidence
    IN  (n * x - sum) * (n * x - sum) > 4 * (n * squares - sum * sum)

\* The detections the spec flags as species-confidence anomalies.
FlaggedDetections ==
    IF Len(detections) < 20 THEN {}
    ELSE {i \in 1..Len(detections) :
             /\ Len(ConfidencesOf(detections, SpeciesName(detections[i]))) >= 5
             /\ ZScoreAboveTwo(i)
             /\ detections[i].confidence < 30}

\* C1: detect_temporal_anomalies and detect_species_anomalies raise for no
\* list of detections; they return a list, which is empty when the data is
\* insufficient.
C1_DetectorsNeverRaise ==
    (Called("detect_species_anomalies") \/ Called("detect_temporal_anomalies")) =>
        /\ ~result.raised
        /\ Called("detect_species_anomalies") /\ Len(detections) < 20
               => result.value = << >>
        /\ Called("detect_temporal_anomalies") /\ Len(detections) < 10
               => result.value = << >>

\* C3: with 20 events or more detect_species_anomalies returns one record
\* for exactly the detections whose species has 5 detections or more, whose
\* confidence has a z-score above 2.0 in absolute value within the species
\* and is below 0.3, of severity "high" below 0.2 and "medium" otherwise;
\* with fewer than 20 events it returns the empty list.
C3_SpeciesAnomaliesFlagged ==
    Called("detect_species_anomalies") =>
        /\ ~result.raised
        /\ Len(result.value) = Cardinality(FlaggedDetections)
        /\ \A i \in FlaggedDetections :
               \E k \in 1..Len(result.value) :
                   /\ result.value[k].metadata.species_name = SpeciesName(detections[i])
                   /\ result.value[k].metadata.detection_confidence = detections[i].confidence
                   /\ result.value[k].severity =
                          IF detections[i].confidence < 20 THEN "high" ELSE "medium"

\* C15: detect_temporal_anomalies returns the empty list for fewer than 10
\* events and for events on fewer than 5 distinct days; otherwise it returns
\* at most one record for each distinct day, each of type "temporal" and
\* severity "medium".
C15_TemporalThresholds ==
    Called("detect_temporal_anomalies") =>
        /\ ~result.raised
        /\ Len(detections) < 10 => result.value = << >>
        /\ Cardinality({detections[i].day : i \in 1..Len(detections)}) < 5
               => result.value = << >>
        /\ \A k \in 1..Len(result.value) :
               /\ result.value[k].type = "temporal"
               /\ result.value[k].severity = "medium"
               /\ \E i \in 1..Len(detections) : detections[i].day = result.value[k].date
               /\ \A h \in 1..Len(result.value) :
                      result.value[h].date = result.value[k].date => h = k

C15_Witness ==
    /\ Called("detect_temporal_anomalies")
    /\ Len(detections) >= 10
    /\ Cardinality({detections[i].day : i \in 1..Len(detections)}) = 5
    /\ Len(result.value) = 1

-----------------------------------------------------------------------------
(* PopulationTrendAnalyzer.analyze_population_trends *)

MaxSeriesDays == 11
MaxDaily == 2

\* The shortest series of the model, one day below the 10 days a trend needs.
ShortSeriesDays == 9

\* The days after which a series may change its level, the days on which it
\* may have one detection more (0 for none), and the numbers of days after
\* which it may gain one detection a day (0 for never).  No value the
\* analyzer rounds is a tie on these series.
StepDays == {0, 1, 2, 3}
BumpDays == {0, 1, 3, 7}
RampDays == {0, 2}

\* The numbers of days the second species of a list is seen on.
CompanionDays == {0, 9, 10}

\* The species of the second series of a list.
CompanionSpecies == 3

\* The detections of one species on one day.
DayDetections(species_id, day, count) ==
    [c \in 1..count |->
        [species_id |-> species_id, confidence |-> HighConfidence,
         day |-> day, hour |-> 12]]

\* The detections of one species over days 1..ndays: a detections a day up
\* to day k and b detections a day after it, one more on day j, and one
\* more a day after every ramp days.  A day with no detection is no day of
\* the species.
RECURSIVE SeriesDetections(_, _, _, _, _, _, _, _)
SeriesDetections(species_id, ndays, k, a, b, j, ramp, i) ==
    IF i > ndays THEN << >>
    ELSE DayDetections(species_id, i,
             (IF i <= k THEN a ELSE b) + (IF i = j THEN 1 ELSE 0)
                 + (IF ramp = 0 THEN 0 ELSE (i - 1) \div ramp))
         \o SeriesDetections(species_id, ndays, k, a, b, j, ramp, i + 1)

\* The detection lists of the model: the series of a named species or of
\* the detections without a species, then one detection a day of a second
\* species.
SeriesLists ==
    {SeriesDetections(who, ndays, k, a, b, j, ramp, 1)
         \o SeriesDetections(CompanionSpecies, extra, 0, 0, 1, 0, 0, 1) :
        who \in {1, None}, ndays \in ShortSeriesDays..MaxSeriesDays,
        k \in StepDays, a \in 0..MaxDaily, b \in 0..MaxDaily,
        j \in BumpDays, ramp \in RampDays, extra \in CompanionDays}

\* species_data[species_name], were every day from the first to the last
\* detection of the species a day of the series, with 0 for a day without one.
DateCountsOverCalendar(dets, species_name) ==
    LET of_species == SelectSeq(dets, LAMBDA d : SpeciesName(d) = species_name)
        days == {of_species[i].day : i \in 1..Len(of_species)}
    IN  [day \in {d \in 0..MaxSeriesDays :
                     /\ \E e \in days : e <= d
                     /\ \E e \in days : e >= d} |->
            Cardinality({i \in 1..Len(of_species) : of_species[i].day = day})]

\* species_data[species_name]: the number of detections on each day the
\* species was detected on.
DateCounts(dets, species_name) ==
    LET of_species == SelectSeq(dets, LAMBDA d : SpeciesName(d) = species_name)
    IN  [day \in {of_species[i].day : i \in 1..Len(of_species)} |->
            Cardinality({i \in 1..Len(of_species) : of_species[i].day = day})]

\* 10000 a / b for a >= 0 and b > 0 by long division, two decimal digits
\* at a time: the quotient rounded down, and the rest over b.
LongDiv(a, b) ==
    LET q0 == a \div b
        r0 == a % b
        q1 == (100 * r0) \div b
        r1 == (100 * r0) % b
        q2 == (100 * r1) \div b
        r2 == (100 * r1) % b
    IN  [quotient |-> 10000 * q0 + 100 * q1 + q2, rest |-> r2]

\* round(x, 2) on the value x = 100 a / b, in hundredths: the nearest
\* hundredth, a tie to the even one.
RoundDiv(a, b) ==
    LET d == LongDiv(a, b)
    IN  IF 2 * d.rest > b THEN d.quotient + 1
        ELSE IF 2 * d.rest < b THEN d.quotient
        ELSE IF d.quotient % 2 = 0 THEN d.quotient ELSE d.quotient + 1

\* The largest r with r * r <= v, for lo * lo <= v < hi * hi.
RECURSIVE ISqrtBetween(_, _, _)
ISqrtBetween(v, lo, hi) ==
    IF hi - lo <= 1 THEN lo
    ELSE LET mid == (lo + hi) \div 2
         IN  IF mid * mid <= v THEN ISqrtBetween(v, mid, hi)
             ELSE ISqrtBetween(v, lo, mid)

SqrtLimit == 46340
ISqrt(v) == ISqrtBetween(v, 0, SqrtLimit)

\* stats.linregress(x, counts) for x = 0, 1, ..., n - 1, in exact
\* fractions: with n times the sums of squares and products about the means
\*   ssxx = n Sum(x^2) - Sum(x)^2, ssxy = n Sum(x y) - Sum(x) Sum(y),
\*   ssyy = n Sum(y^2) - Sum(y)^2
\* slope = ssxy / ssxx, r_value^2 = ssxy^2 / (ssxx ssyy) (0 when ssyy = 0),
\* intercept = mean(y) - slope mean(x),
\* std_err^2 = (1 - r_value^2) (ssyy / ssxx) / (n - 2).
Linregress(counts) ==
    LET n == Len(counts)
        sum_x == SeqSum([i \in 1..n |-> i - 1])
        sum_xx == SeqSum([i \in 1..n |-> (i - 1) * (i - 1)])
        sum_y == SeqSum(counts)
        sum_xy == SeqSum([i \in 1..n |-> (i - 1) * counts[i]])
        sum_yy == SeqSum([i \in 1..n |-> counts[i] * counts[i]])
    IN  [n |-> n, sum_x |-> sum_x, sum_y |-> sum_y,
         ssxx |-> n * sum_xx - sum_x * sum_x,
         ssxy |-> n * sum_xy - sum_x * sum_y,
         ssyy |-> n * sum_yy - sum_y * sum_y]

\* The value of r_value^2, in ten-thousandths, at which the two-sided
\* p-value of the slope is 0.05, by the number of points: t^2 / (t^2 + n - 2)
\* for the 97.5% point t of Student's distribution on n - 2 degrees of
\* freedom, rounded up.
CriticalRSquared ==
    10 :> 3993 @@ 11 :> 3625 @@ 12 :> 3318 @@ 13 :> 3058 @@ 14 :> 2835

\* p_value > 0.05
NotSignificant(fit) ==
    IF fit.ssyy = 0 THEN TRUE
    ELSE LongDiv(fit.ssxy * fit.ssxy, fit.ssxx * fit.ssyy).quotient < CriticalRSquared[fit.n]

Abs(v) == IF v < 0 THEN -v ELSE v

\* abs(slope) < 0.01
SlopeBelow(fit) == 100 * Abs(fit.ssxy) < fit.ssxx

\* round(trend_percentage, 2), in hundredths, for
\* (slope * len(dates) / np.mean(counts)) * 100 and its absolute value.
TrendPercentage(fit) ==
    RoundDiv(Abs(fit.ssxy) * fit.n * fit.n, fit.ssxx * fit.sum_y)

\* The confidence level without the halving of a non-significant trend.
ConfidenceLevelNeverHalved(fit) ==
    IF fit.ssyy = 0 THEN 0
    ELSE IF 10 * fit.ssxy * fit.ssxy >= 9 * fit.ssxx * fit.ssyy THEN Hundredths(90)
    ELSE RoundDiv(fit.ssxy * fit.ssxy, fit.ssxx * fit.ssyy)

\* round(confidence_level, 2), in hundredths.
ConfidenceLevel(fit) ==
    IF fit.ssyy = 0 THEN 0
    ELSE LET capped == 10 * fit.ssxy * fit.ssxy >= 9 * fit.ssxx * fit.ssyy
             halved == NotSignificant(fit)
         IN  IF capped THEN (IF halved THEN Hundredths(45) ELSE Hundredths(90))
             ELSE RoundDiv(fit.ssxy * fit.ssxy,
                           (IF halved THEN 2 ELSE 1) * fit.ssxx * fit.ssyy)

forecast_days == 30

\* slope * future_x + intercept, as the fraction num / den.
LineAt(fit, future_x) ==
    [num |-> fit.ssxy * fit.n * future_x + fit.ssxx * fit.sum_y - fit.ssxy * fit.sum_x,
     den |-> fit.n * fit.ssxx]

\* max(0, slope * future_x + intercept), in thousandths, rounded down.
PredictedCount(fit, future_x) ==
    LET line == LineAt(fit, future_x)
    IN  IF line.num <= 0 THEN 0 ELSE (1000 * line.num) \div line.den

\* 1.96 * std_err, in thousandths, rounded down: std_err is
\* sqrt(residual / (n - 2)) / ssxx, the square root taken to a tenth.
IntervalHalfWidth(fit) ==
    LET residual == fit.ssxx * fit.ssyy - fit.ssxy * fit.ssxy
    IN  (196 * ISqrt((100 * residual) \div (fit.n - 2))) \div fit.ssxx

\* The lower bound without the clamp at 0.
ForecastPointUnclamped(fit, last_date, i) ==
    LET predicted_count == PredictedCount(fit, fit.n + i)
    IN  [date |-> last_date + i + 1,
         predicted_count |-> predicted_count,
         confidence_interval |->
             [lower |-> predicted_count - IntervalHalfWidth(fit),
              upper |-> predicted_count + IntervalHalfWidth(fit)]]

\* The body of the loop over range(forecast_days), for i = 0, 1, ...
ForecastPoint(fit, last_date, i) ==
    LET predicted_count == PredictedCount(fit, fit.n + i)
    IN  [date |-> last_date + i + 1,
         predicted_count |-> predicted_count,
         confidence_interval |->
             [lower |-> Max2(0, predicted_count - IntervalHalfWidth(fit)),
              upper |-> predicted_count + IntervalHalfWidth(fit)]]

\* next((d.species_id for d in detections
\*       if d.species and d.species.name == species_name), None)
FirstSpeciesId(dets, species_name) ==
    LET named == SelectSeq(dets, LAMBDA d : d.species_id # None /\ SpeciesName(d) = species_name)
    IN  IF Len(named) = 0 THEN None ELSE named[1].species_id

\* The direction without the band of slopes called "stable".
TrendDirectionWithoutStable(fit) ==
    IF fit.ssxy > 0 THEN "increasing" ELSE "decreasing"

TrendDirection(fit) ==
    IF SlopeBelow(fit) THEN "stable"
    ELSE IF fit.ssxy > 0 THEN "increasing"
    ELSE "decreasing"

\* The dict appended to trends for one species.  The fractions of
\* statistical_measures are kept as numerator and denominator.
TrendOf(dets, species_name, date_counts) ==
    LET dates == SortedDays(DOMAIN date_counts)
        counts == [i \in 1..Len(dates) |-> date_counts[dates[i]]]
        fit == Linregress(counts)
    IN  [species_id |-> FirstSpeciesId(dets, species_name),
         species_name |-> species_name,
         trend_direction |-> TrendDirection(fit),
         trend_percentage |-> IF SlopeBelow(fit) THEN 0 ELSE TrendPercentage(fit),
         confidence_level |-> ConfidenceLevel(fit),
         forecast_data |-> [i \in 1..forecast_days |->
                               ForecastPoint(fit, dates[Len(dates)], i - 1)],
         analysis_period |-> [start_date |-> dates[1], end_date |-> dates[Len(dates)]],
         statistical_measures |->
             [slope |-> <<fit.ssxy, fit.ssxx>>,
              r_squared |-> IF fit.ssyy = 0 THEN <<0, 1>>
                            ELSE <<fit.ssxy * fit.ssxy, fit.ssxx * fit.ssyy>>,
              p_value_above_005 |-> NotSignificant(fit),
              mean_detections |-> <<fit.sum_y, fit.n>>,
              var_detections |-> <<fit.ssyy, fit.n * fit.n>>]]

MinTrendDays == 10

\* The loop over species_data.items() with <= 10 for < 10.
RECURSIVE TrendLoopAboveTen(_, _, _, _)
TrendLoopAboveTen(dets, names, i, trends) ==
    IF i > Len(names) THEN trends
    ELSE LET date_counts == DateCounts(dets, names[i])
         IN  IF Cardinality(DOMAIN date_counts) <= MinTrendDays
             THEN TrendLoopAboveTen(dets, names, i + 1, trends)
             ELSE TrendLoopAboveTen(dets, names, i + 1,
                      Append(trends, TrendOf(dets, names[i], date_counts)))

\* The loop over species_data.items().
RECURSIVE TrendLoop(_, _, _, _)
TrendLoop(dets, names, i, trends) ==
    IF i > Len(names) THEN trends
    ELSE LET date_counts == DateCounts(dets, names[i])
         IN  IF Cardinality(DOMAIN date_counts) < MinTrendDays
             THEN TrendLoop(dets, names, i + 1, trends)
             ELSE TrendLoop(dets, names, i + 1,
                      Append(trends, TrendOf(dets, names[i], date_counts)))

analyze_population_trends(dets) ==
    IF Len(dets) = 0 THEN Returned(<< >>)
    ELSE Returned(TrendLoop(dets,
             KeysInOrder([i \in 1..Len(dets) |-> SpeciesName(dets[i])], 1, << >>),
             1, << >>))

InitTrends ==
    /\ species_counts = << >>
    /\ hourly_activity = EmptyDict
    /\ species_trends = << >>
    /\ species_data = << >>
    /\ detections \in SeriesLists
    /\ EngineIdle
    /\ result = NoResult

CallAnalyzeTrends ==
    /\ result.op = "none"
    /\ result' = [op |-> "analyze_population_trends"] @@ analyze_population_trends(detections)
    /\ UNCHANGED <<inputs, engine>>

NextTrends == CallAnalyzeTrends

SpecTrends == InitTrends /\ [][NextTrends]_vars

-----------------------------------------------------------------------------
(* Population trend claims *)

\* The names of the species of the detections and, for a name, the number of
\* distinct days it was detected on.
DetectedNames == {SpeciesName(detections[i]) : i \in 1..Len(detections)}
DistinctDays(species_name) ==
    Cardinality({detections[i].day : i \in
                    {h \in 1..Len(detections) : SpeciesName(detections[h]) = species_name}})

\* The slope of a trend result is below 0.01 in absolute value, above 0,
\* below 0.
SlopeSmall(t) ==
    100 * Abs(t.statistical_measures.slope[1]) < t.statistical_measures.slope[2]
SlopeSign(t) ==
    IF t.statistical_measures.slope[1] > 0 THEN 1
    ELSE IF t.statistical_measures.slope[1] < 0 THEN -1 ELSE 0

\* |slope * n_days / mean_count| * 100 of a trend result, in hundredths: the
\* whole hundredths and what is left over.
Magnitude(t) ==
    LongDiv(Abs(t.statistical_measures.slope[1]) * DistinctDays(t.species_name)
                * t.statistical_measures.mean_detections[2],
            t.statistical_measures.slope[2] * t.statistical_measures.mean_detections[1])

MagnitudeRounded(t) ==
    RoundDiv(Abs(t.statistical_measures.slope[1]) * DistinctDays(t.species_name)
                 * t.statistical_measures.mean_detections[2],
             t.statistical_measures.slope[2] * t.statistical_measures.mean_detections[1])

DirectionBySlope(t) ==
    IF SlopeSmall(t) THEN "stable"
    ELSE IF SlopeSign(t) > 0 THEN "increasing" ELSE "decreasing"

\* C11 as stated: every trend is "stable" with magnitude 0 when |slope| <
\* 0.01, else "increasing" for slope > 0 and "decreasing" for slope < 0 with
\* magnitude |slope * n_days / mean_count| * 100.
C11_DirectionAndExactMagnitude ==
    Called("analyze_population_trends") =>
        \A k \in 1..Len(result.value) :
            LET t == result.value[k]
            IN  /\ t.trend_direction = DirectionBySlope(t)
                /\ SlopeSmall(t) => t.trend_percentage = 0
                /\ ~SlopeSmall(t) =>
                       /\ Magnitude(t).rest = 0
                       /\ t.trend_percentage = Magnitude(t).quotient

\* C11: every trend is "stable" with magnitude 0 when |slope| < 0.01, else
\* "increasing" for slope > 0 and "decreasing" for slope < 0 with magnitude
\* |slope * n_days / mean_count| * 100 rounded to two decimals; the
\* direction is one of the three.
C11_DirectionAndRoundedMagnitude ==
    Called("analyze_population_trends") =>
        \A k \in 1..Len(result.value) :
            LET t == result.value[k]
            IN  /\ t.trend_direction \in {"stable", "increasing", "decreasing"}
                /\ t.trend_direction = DirectionBySlope(t)
                /\ SlopeSmall(t) => t.trend_percentage = 0
                /\ ~SlopeSmall(t) => t.trend_percentage = MagnitudeRounded(t)

C11_Witness ==
    /\ Called("analyze_population_trends")
    /\ Len(result.value) = 2
    /\ result.value[1].trend_direction = "decreasing"
    /\ Magnitude(result.value[1]).rest # 0
    /\ result.value[2].trend_direction = "stable"
    /\ SlopeSign(result.value[2]) = 0

\* min(R^2 * 100, 90) of a trend result, halved when the p-value is above
\* 0.05, in hundredths: the whole hundredths and what is left over.
RSquaredCapped(t) ==
    10 * t.statistical_measures.r_squared[1] >= 9 * t.statistical_measures.r_squared[2]

Halving(t) == IF t.statistical_measures.p_value_above_005 THEN 2 ELSE 1

ConfidenceByRSquared(t) ==
    IF RSquaredCapped(t) THEN [quotient |-> Hundredths(90) \div Halving(t), rest |-> 0]
    ELSE LongDiv(t.statistical_measures.r_squared[1],
                 Halving(t) * t.statistical_measures.r_squared[2])

ConfidenceByRSquaredRounded(t) ==
    IF RSquaredCapped(t) THEN Hundredths(90) \div Halving(t)
    ELSE RoundDiv(t.statistical_measures.r_squared[1],
                  Halving(t) * t.statistical_measures.r_squared[2])

\* Every species detected on 10 distinct days or more has a trend result.
TrendsKept ==
    \A species_name \in DetectedNames :
        DistinctDays(species_name) >= 10 =>
            \E k \in 1..Len(result.value) : result.value[k].species_name = species_name

\* C12 as stated: the confidence level of every trend is min(R^2 * 100, 90),
\* and half of it when the p-value is above 0.05; it lies in [0, 90]; no
\* trend is dropped for being non-significant.
C12_ConfidenceExact ==
    Called("analyze_population_trends") =>
        /\ TrendsKept
        /\ \A k \in 1..Len(result.value) :
               LET t == result.value[k]
               IN  /\ ConfidenceByRSquared(t).rest = 0
                   /\ t.confidence_level = ConfidenceByRSquared(t).quotient
                   /\ t.confidence_level \in 0..Hundredths(90)

\* C12: the confidence level of every trend is min(R^2 * 100, 90), and half
\* of it when the p-value is above 0.05, rounded to two decimals; it lies in
\* [0, 90]; no trend is dropped for being non-significant.
C12_ConfidenceRounded ==
    Called("analyze_population_trends") =>
        /\ TrendsKept
        /\ \A k \in 1..Len(result.value) :
               LET t == result.value[k]
               IN  /\ t.confidence_level = ConfidenceByRSquaredRounded(t)
                   /\ t.confidence_level \in 0..Hundredths(90)

C12_Witness ==
    /\ Called("analyze_population_trends")
    /\ \E k \in 1..Len(result.value) :
           /\ result.value[k].statistical_measures.p_value_above_005
           /\ ConfidenceByRSquared(result.value[k]).rest # 0
           /\ result.value[k].confidence_level > 0

\* C13: every trend has a forecast of 30 points, on the 30 days that follow
\* the last day the species was detected on, and the lower bound of every
\* interval is 0 or more.
C13_ForecastThirtyDaysNonNegative ==
    Called("analyze_population_trends") =>
        \A k \in 1..Len(result.value) :
            LET t == result.value[k]
                last == CHOOSE day \in {detections[i].day : i \in
                                {h \in 1..Len(detections) :
                                    SpeciesName(detections[h]) = t.species_name}} :
                            \A i \in 1..Len(detections) :
                                SpeciesName(detections[i]) = t.species_name
                                    => detections[i].day <= day
            IN  /\ Len(t.forecast_data) = 30
                /\ \A i \in 1..30 :
                       /\ t.forecast_data[i].date = last + i
                       /\ t.forecast_data[i].confidence_interval.lower >= 0

\* A forecast point whose interval reaches below 0 before the clamp.
C13_Witness ==
    /\ Called("analyze_population_trends")
    /\ \E k \in 1..Len(result.value) :
           /\ result.value[k].trend_direction = "decreasing"
           /\ \E i \in 1..30 :
                  LET point == result.value[k].forecast_data[i]
                  IN  /\ point.predicted_count > 0
                      /\ point.confidence_interval.lower = 0
                      /\ 2 * point.predicted_count < point.confidence_interval.upper

\* C14: a species has a trend result exactly when it was detected on 10
\* distinct days or more, and then one; the others are left out without a
\* failure; no detection gives no trend.
C14_TrendIffTenDays ==
    Called("analyze_population_trends") =>
        /\ ~result.raised
        /\ \A species_name \in DetectedNames :
               Cardinality({k \in 1..Len(result.value) :
                               result.value[k].species_name = species_name})
                   = IF DistinctDays(species_name) >= 10 THEN 1 ELSE 0
        /\ \A k \in 1..Len(result.value) : result.value[k].species_name \in DetectedNames
        /\ Len(detections) = 0 => result.value = << >>

C14_Witness ==
    /\ Called("analyze_population_trends")
    /\ Cardinality(DetectedNames) = 2
    /\ \E species_name \in DetectedNames : DistinctDays(species_name) = 9
    /\ \E species_name \in DetectedNames : DistinctDays(species_name) = 10
    /\ Len(result.value) = 1


\* C30: every daily count the regression is run on is at least 1: a day
\* without a detection of the species is no point of the series, and x is
\* the rank of the observed day, not the calendar day. So the mean count is
\* at least 1, the magnitude is never a division by zero, and the magnitude
\* reported is at least 0.
C30_DailyCountsPositive ==
    Called("analyze_population_trends") =>
        /\ ~result.raised
        /\ \A name \in DetectedNames :
               \A day \in DOMAIN DateCounts(detections, name) :
                   DateCounts(detections, name)[day] >= 1
        /\ \A i \in 1..Len(result.value) :
               /\ Cardinality(DOMAIN DateCounts(detections, result.value[i].species_name))
                      = DistinctDays(result.value[i].species_name)
               /\ result.value[i].statistical_measures.mean_detections[2]
                      = DistinctDays(result.value[i].species_name)
               /\ 12 * result.value[i].statistical_measures.slope[2]
                      = DistinctDays(result.value[i].species_name)
                            * DistinctDays(result.value[i].species_name)
                            * (DistinctDays(result.value[i].species_name)
                                   * DistinctDays(result.value[i].species_name) - 1)
               /\ result.value[i].statistical_measures.mean_detections[1]
                      >= result.value[i].statistical_measures.mean_detections[2]
               /\ result.value[i].statistical_measures.mean_detections[2] > 0
               /\ result.value[i].trend_percentage >= 0

\* A trend with a magnitude above 0 on a series of 10 observed days that
\* span 11 calendar days.
C30_Witness ==
    /\ Called("analyze_population_trends")
    /\ Len(result.value) = 1
    /\ DistinctDays(result.value[1].species_name) = 10
    /\ result.value[1].analysis_period.start_date = 1
    /\ result.value[1].analysis_period.end_date = 11
    /\ result.value[1].trend_percentage > 0

-----------------------------------------------------------------------------
(* ActivityPatternAnalyzer.analyze_temporal_patterns *)

\* SortedByCount by an unstable sort: of items of equal count the last comes
\* first.
RECURSIVE SortedByCountLastFirst(_)
SortedByCountLastFirst(items) ==
    IF Len(items) = 0 THEN << >>
    ELSE LET k == CHOOSE k \in 1..Len(items) :
                      /\ \A j \in 1..Len(items) : items[j].count <= items[k].count
                      /\ \A j \in (k + 1)..Len(items) : items[j].count < items[k].count
         IN  <<items[k]>>
                 \o SortedByCountLastFirst(
                        SubSeq(items, 1, k - 1) \o SubSeq(items, k + 1, Len(items)))

\* sorted(items, key=lambda x: x[1], reverse=True): by falling count, items
\* of equal count in the order they had.
RECURSIVE SortedByCount(_)
SortedByCount(items) ==
    IF Len(items) = 0 THEN << >>
    ELSE LET k == CHOOSE k \in 1..Len(items) :
                      /\ \A j \in 1..Len(items) : items[j].count <= items[k].count
                      /\ \A j \in 1..(k - 1) : items[j].count < items[k].count
         IN  <<items[k]>>
                 \o SortedByCount(SubSeq(items, 1, k - 1) \o SubSeq(items, k + 1, Len(items)))

\* list[:n]
Take(list, n) == SubSeq(list, 1, Min2(n, Len(list)))

\* df.groupby('hour').size().to_dict()
HourlyActivity(dets) ==
    [h \in {dets[i].hour : i \in 1..Len(dets)} |->
        Cardinality({i \in 1..Len(dets) : dets[i].hour = h})]

\* The items of hourly_activity, in the order of the hours.
HourlyItems(hourly) ==
    LET hours == SortedDays(DOMAIN hourly)
    IN  [k \in 1..Len(hours) |-> [hour |-> hours[k], count |-> hourly[hours[k]]]]

\* detection.created_at.month: the days of the model are days of January.
Month(day) == 1

\* df.groupby('month').agg({'species_id': 'count', 'confidence': 'mean'}):
\* count counts the detections that have a species_id; the mean is kept as
\* the sum of the confidences and their number.
SeasonalPatterns(dets) ==
    LET months == SortedDays({Month(dets[i].day) : i \in 1..Len(dets)})
        of_month(m) == SelectSeq(dets, LAMBDA d : Month(d.day) = m)
    IN  [k \in 1..Len(months) |->
            [month |-> months[k],
             detection_count |->
                 Len(SelectSeq(of_month(months[k]), LAMBDA d : d.species_id # None)),
             avg_confidence |->
                 <<SeqSum([i \in 1..Len(of_month(months[k])) |->
                              of_month(months[k])[i].confidence]),
                   Len(of_month(months[k]))>>]]

\* No detection of the model has a behavior_classification.
analyze_temporal_patterns(dets) ==
    IF Len(dets) = 0 THEN Returned(EmptyDict)
    ELSE CHOOSE r \in
        { IF activity_type.raised THEN activity_type
          ELSE Returned(
              [hourly_activity |-> [h \in 0..23 |-> DictGet(hourly, h)],
               peak_activity_hours |->
                   LET top_hours == Take(SortedByCount(HourlyItems(hourly)), 3)
                   IN  [k \in 1..Len(top_hours) |-> top_hours[k].hour],
               activity_type |-> activity_type.value,
               seasonal_patterns |-> SeasonalPatterns(dets),
               behavior_patterns |-> [b \in {"unknown"} |-> Len(dets)]]) :
            hourly \in {HourlyActivity(dets)},
            activity_type \in {_classify_activity_type(HourlyActivity(dets))} } : TRUE

-----------------------------------------------------------------------------
(* EnhancedAnalyticsEngine *)

\* The store behind db.session: whether it answers, the detections and the
\* species it holds.
Store == [available |-> db_available, detections |-> detections, species |-> Catalog]

HoursPerDay == 24

\* CameraImage.timestamp of the image of a detection, in hours; the image of
\* a detection of the model is taken in the hour the detection is created.
Timestamp(d) == d.day * HoursPerDay + d.hour

\* query.all() after the filters on CameraImage.timestamp: start_time and
\* end_time in hours, None for no filter. Every detection of the model is of
\* a camera of organization 1, the organization of OrganizationIds.
QueryDetections(store, start_time, end_time) ==
    SelectSeq(store.detections,
              LAMBDA d : /\ Timestamp(d) >= start_time
                         /\ (end_time = None \/ Timestamp(d) <= end_time))

\* species_counts, were a detection without a species left out.
SpeciesCountItemsNamedOnly(dets) ==
    LET named == SelectSeq(dets, LAMBDA d : d.species_id # None)
        names == KeysInOrder([i \in 1..Len(named) |-> SpeciesName(named[i])], 1, << >>)
    IN  [k \in 1..Len(names) |->
            [species_name |-> names[k],
             count |-> Cardinality({i \in 1..Len(named) : SpeciesName(named[i]) = names[k]})]]

\* species_counts of the engine: the items of the dict, in insertion order.
SpeciesCountItems(dets) ==
    LET names == KeysInOrder([i \in 1..Len(dets) |-> SpeciesName(dets[i])], 1, << >>)
    IN  [k \in 1..Len(names) |->
            [species_name |-> names[k],
             count |-> Cardinality({i \in 1..Len(dets) : SpeciesName(dets[i]) = names[k]})]]

\* species_query.all(): with an organization_id and a detection that has a
\* species, the species that were detected; otherwise all species.
SpeciesQuery(store, dets, organization_id) ==
    LET detected_species_ids == {dets[i].species_id : i \in 1..Len(dets)} \ {None}
    IN  IF organization_id # None /\ detected_species_ids # {}
        THEN SelectSeq(store.species, LAMBDA s : s.id \in detected_species_ids)
        ELSE store.species

\* species_counts.values(). Below, CHOOSE r \in {f(v) : v \in {e}} : TRUE is
\* f(e) with e evaluated before the call, as Python evaluates arguments.
CountValues(items) == << >> \o [k \in 1..Len(items) |-> items[k].count]

\* The dict biodiversity_metrics; a function that raises ends the call.
BiodiversityMetrics(items) ==
    CHOOSE r \in
        { CHOOSE q \in
              { IF shannon.raised THEN shannon
                ELSE IF simpson.raised THEN simpson
                ELSE IF evenness.raised THEN evenness
                ELSE Returned(
                    [shannon_index |-> shannon.value,
                     simpson_index |-> simpson.value,
                     species_richness |->
                         Cardinality({k \in 1..Len(items) : items[k].count > 0}),
                     species_evenness |-> evenness.value,
                     dominant_species |-> Take(SortedByCount(items), 3),
                     rare_species |->
                         LET rare == SelectSeq(items, LAMBDA it : it.count = 1)
                         IN  [k \in 1..Len(rare) |-> rare[k].species_name]]) :
                  shannon \in {calculate_shannon_index(counts)},
                  simpson \in {calculate_simpson_index(counts)},
                  evenness \in {calculate_species_evenness(counts)} } : TRUE :
            counts \in {CountValues(items)} } : TRUE

\* (count / len(detections)) * 100
Percentage(count, n) ==
    CHOOSE r \in {FMul(FDivInt(c, t), FromInt(100)) : c \in {count}, t \in {n}} : TRUE

\* The dict the engine returns. Every detection of the model is of camera 1.
Report(dets, start, end, biodiversity, activity, temporal, species, trends, alerts) ==
    LET items == SpeciesCountItems(dets)
        sorted == SortedByCount(items)
    IN  [analysis_period |->
             [start_date |-> start, end_date |-> end, total_days |-> end - start],
         summary |->
             [total_detections |-> Len(dets),
              unique_species |-> Len(items),
              cameras_active |-> Cardinality({1 : i \in 1..Len(dets)}),
              anomalies_detected |-> Len(temporal) + Len(species),
              conservation_alerts |-> Len(alerts)],
         biodiversity_metrics |-> biodiversity,
         activity_patterns |-> activity,
         anomalies |-> [temporal |-> temporal, species |-> species],
         population_trends |-> trends,
         conservation_alerts |-> alerts,
         species_breakdown |->
             [k \in 1..Len(sorted) |->
                 [species_name |-> sorted[k].species_name,
                  detection_count |-> sorted[k].count,
                  percentage |-> Percentage(sorted[k].count, Len(dets))]]]

default_period_days == 30

\* The return statement, reached when no analyzer raised; otherwise the
\* exception of the first analyzer that raised.
ReportOrFailure(dets, start, end, biodiversity, activity, temporal, species, trends, alerts) ==
    IF biodiversity.raised THEN biodiversity
    ELSE IF activity.raised THEN activity
    ELSE IF temporal.raised THEN temporal
    ELSE IF species.raised THEN species
    ELSE IF trends.raised THEN trends
    ELSE IF alerts.raised THEN alerts
    ELSE Returned(Report(dets, start, end, biodiversity.value, activity.value,
                         temporal.value, species.value, trends.value, alerts.value))

\* The statements after the two queries, on the detections and the species
\* they gave. outliers: the days the isolation forest of the detector scores
\* -1 during this call. The result of every analyzer is a value before the
\* next statement uses it.
AnalyzeSnapshot(dets, catalog, from_date, to_date, now, outliers) ==
    CHOOSE r \in
        { CHOOSE q \in
              {ReportOrFailure(dets, from_date, to_date, biodiversity_metrics, activity_patterns,
                               temporal_anomalies, species_anomalies, population_trends,
                               conservation_alerts) :
                  conservation_alerts \in
                      {IF population_trends.raised THEN population_trends
                       ELSE generate_conservation_alerts(
                                population_trends.value, catalog, now)}} : TRUE :
            biodiversity_metrics \in {BiodiversityMetrics(SpeciesCountItems(dets))},
            activity_patterns \in {analyze_temporal_patterns(dets)},
            temporal_anomalies \in {detect_temporal_anomalies(dets, outliers)},
            species_anomalies \in {detect_species_anomalies(dets)},
            population_trends \in {analyze_population_trends(dets)} } : TRUE

\* The body of the try block, were an empty query result an error.
AnalyticsBodyRejectingEmpty(store, organization_id, from_date, to_date, now, outliers) ==
    IF ~store.available THEN Raised("OperationalError")
    ELSE CHOOSE r \in
        { IF Len(dets) = 0 THEN Raised("ValueError")
          ELSE AnalyzeSnapshot(dets, SpeciesQuery(store, dets, organization_id),
                               from_date, to_date, now, outliers) :
            dets \in {QueryDetections(store, from_date * HoursPerDay,
                                      to_date * HoursPerDay)} } : TRUE

\* The body of the try block: the query for the detections of the window,
\* the query for the species, then the analysis.
AnalyticsBody(store, organization_id, from_date, to_date, now, outliers) ==
    IF ~store.available THEN Raised("OperationalError")
    ELSE CHOOSE r \in
        { AnalyzeSnapshot(dets, SpeciesQuery(store, dets, organization_id),
                          from_date, to_date, now, outliers) :
            dets \in {QueryDetections(store, from_date * HoursPerDay,
                                      to_date * HoursPerDay)} } : TRUE

\* if not end_date: end_date = datetime.utcnow()
\* if not start_date: start_date = end_date - timedelta(days=30)
WindowOf(start_date, end_date, now) ==
    LET end == IF end_date = None THEN now ELSE end_date
    IN  [start |-> IF start_date = None THEN end - default_period_days ELSE start_date,
         end   |-> end]

\* generate_comprehensive_analytics with the except clause of
\* get_real_time_insights: a failure is logged and a dict is returned.
GenerateAnalyticsReturningError(store, organization_id, start_date, end_date, now, outliers) ==
    LET body == AnalyticsBody(store, organization_id,
                              WindowOf(start_date, end_date, now).start,
                              WindowOf(start_date, end_date, now).end, now, outliers)
    IN  IF body.raised
        THEN Returned([timestamp |-> now, error |-> "Failed to generate analytics"])
        ELSE body

\* generate_comprehensive_analytics taking the default start 30 days before
\* the time of the call, whatever the end.
GenerateAnalyticsStartBeforeNow(store, organization_id, start_date, end_date, now, outliers) ==
    AnalyticsBody(store, organization_id,
                  IF start_date = None THEN now - default_period_days ELSE start_date,
                  IF end_date = None THEN now ELSE end_date, now, outliers)

\* except Exception as e: raise e
generate_comprehensive_analytics(store, organization_id, start_date, end_date, now, outliers) ==
    AnalyticsBody(store, organization_id,
                  WindowOf(start_date, end_date, now).start,
                  WindowOf(start_date, end_date, now).end, now, outliers)

\* The detections the query of generate_comprehensive_analytics gives.
WindowDetections(store, start_date, end_date, now) ==
    QueryDetections(store, WindowOf(start_date, end_date, now).start * HoursPerDay,
                    WindowOf(start_date, end_date, now).end * HoursPerDay)

\* The detector after generate_comprehensive_analytics on the detections
\* dets of its window: it is used when the call gets as far as
\* detect_temporal_anomalies.
DetectorAfterAnalytics(detector, store, dets) ==
    IF ~store.available
           \/ BiodiversityMetrics(SpeciesCountItems(dets)).raised
           \/ analyze_temporal_patterns(dets).raised
    THEN detector
    ELSE DetectorAfterTemporal(detector, dets)

RecentHours == 24
HighActivityAbove == 10
ModerateActivityAbove == 3

\* get_real_time_insights: every exception of the try block is logged and a
\* dict with the key 'error' is returned.
InsightsOf(recent_detections, now) ==
    LET items == SpeciesCountItems(recent_detections)
        shannon == CHOOSE r \in {calculate_shannon_index(counts) :
                                     counts \in {CountValues(items)}} : TRUE
    IN  IF shannon.raised
        THEN Returned([timestamp |-> now, error |-> "Failed to generate insights"])
        ELSE Returned(
            [timestamp |-> now,
             recent_detections |-> Len(recent_detections),
             active_species |-> Len(items),
             biodiversity_index |-> shannon.value,
             top_species |-> Take(SortedByCount(items), 5),
             activity_level |->
                 IF Len(recent_detections) > HighActivityAbove THEN "high"
                 ELSE IF Len(recent_detections) > ModerateActivityAbove THEN "moderate"
                 ELSE "low"])

\* get_real_time_insights on every detection of the store, with no filter
\* on the time.
GetInsightsOfAllDetections(store, organization_id, now) ==
    IF ~store.available
    THEN Returned([timestamp |-> now, error |-> "Failed to generate insights"])
    ELSE CHOOSE r \in
        { InsightsOf(recent_detections, now) :
            recent_detections \in {store.detections} } : TRUE

\* start_time = datetime.utcnow() - timedelta(hours=24); the query has no
\* filter on the end.
get_real_time_insights(store, organization_id, now) ==
    IF ~store.available
    THEN Returned([timestamp |-> now, error |-> "Failed to generate insights"])
    ELSE CHOOSE r \in
        { InsightsOf(recent_detections, now) :
            recent_detections \in
                {QueryDetections(store, now * HoursPerDay - RecentHours, None)} } : TRUE

\* The detections the store gives the engine: detections without a species,
\* 1 a day on 0, 5 or 10 days, then a named species on no day or on 10 days,
\* with 1 detection a day or 2 a day on the first 5 days.
EngineLists ==
    {SeriesDetections(None, extra, 0, 0, 1, 0, 0, 1)
         \o SeriesDetections(1, ndays, 5, a, 1, 0, 0, 1) :
        ndays \in {0, 10}, a \in {1, 2}, extra \in {0, 5, 10}}

\* The arguments of the engine's methods, dates in days.
OrganizationIds == {None, 1}
StartDates == {None, 1, 6, 11}
EndDates == {None, 11}

\* The times, in days, at which the engine is called: after the last
\* detection of the store.
EngineTimes == {11, 12}

InitEngine ==
    /\ species_counts = << >>
    /\ hourly_activity = EmptyDict
    /\ species_trends = << >>
    /\ species_data = Catalog
    /\ detections \in EngineLists
    /\ db_available \in BOOLEAN
    /\ anomaly_detector = NewAnomalyDetector
    /\ requests = << >>
    /\ earlier = NoResult
    /\ result = NoResult

\* result.args: the arguments and the time of the call.
CallGenerateAnalytics ==
    /\ result.op = "none"
    /\ \E organization_id \in OrganizationIds, start_date \in StartDates,
          end_date \in EndDates, now \in EngineTimes :
           \E dets \in {WindowDetections(Store, start_date, end_date, now)} :
               /\ \E outliers \in FitPredictOutliers(dets) :
                      result' = [op |-> "generate_comprehensive_analytics",
                                 args |-> [organization_id |-> organization_id,
                                           start_date |-> start_date,
                                           end_date |-> end_date, now |-> now]]
                                    @@ generate_comprehensive_analytics(
                                           Store, organization_id, start_date, end_date,
                                           now, outliers)
               /\ anomaly_detector' = DetectorAfterAnalytics(anomaly_detector, Store, dets)
    /\ UNCHANGED <<inputs, db_available, requests, earlier>>

CallRealTimeInsights ==
    /\ result.op = "none"
    /\ \E organization_id \in OrganizationIds, now \in EngineTimes :
           result' = [op |-> "get_real_time_insights",
                      args |-> [organization_id |-> organization_id, now |-> now]]
                         @@ get_real_time_insights(Store, organization_id, now)
    /\ UNCHANGED <<inputs, engine>>

NextEngine == CallGenerateAnalytics \/ CallRealTimeInsights

SpecEngine == InitEngine /\ [][NextEngine]_vars

-----------------------------------------------------------------------------
(* Claims on the engine *)

ReportSections ==
    {"analysis_period", "summary", "biodiversity_metrics", "activity_patterns",
     "anomalies", "population_trends", "conservation_alerts", "species_breakdown"}

\* The detections of the store in the window of the call made.
Queried ==
    WindowDetections(Store, result.args.start_date, result.args.end_date, result.args.now)

\* A step of the analysis fails: the store does not answer, or an analyzer
\* raises on the detections of the window.
SomeStepFails ==
    \/ ~db_available
    \/ \E counts \in {CountValues(SpeciesCountItems(Queried))} :
           calculate_shannon_index(counts).raised
    \/ analyze_temporal_patterns(Queried).raised
    \/ detect_species_anomalies(Queried).raised
    \/ analyze_population_trends(Queried).raised

\* C17: generate_comprehensive_analytics is all-or-nothing: when the store or
\* an analyzer fails the failure is propagated to the caller and no report,
\* partial or other, is returned; a report that is returned has every
\* section.
C17_AllOrNothing ==
    Called("generate_comprehensive_analytics") =>
        /\ result.raised <=> SomeStepFails
        /\ result.raised => result.value \in {"OperationalError", "AttributeError"}
        /\ ~result.raised =>
               /\ DOMAIN result.value = ReportSections
               /\ DOMAIN result.value.anomalies = {"temporal", "species"}
               /\ result.value.summary.total_detections = Len(Queried)

\* An analyzer fails after others have produced their part of the report.
C17_Witness ==
    /\ Called("generate_comprehensive_analytics")
    /\ db_available
    /\ Len(Queried) >= 20
    /\ result.raised
    /\ result.value = "AttributeError"

\* C18: a failure of the store during get_real_time_insights is propagated
\* to the caller as a failure; it is not turned into a value that is
\* returned normally.
C18_StoreFailurePropagated ==
    (Called("get_real_time_insights") /\ ~db_available) => result.raised

\* C23: generate_comprehensive_analytics resolves its window as: the end is
\* the end date given, or the time of the call when none is given; the start
\* is the start date given, or 30 days before the resolved end when none is
\* given. With neither given the period reported is exactly the 30 days that
\* end at the time of the call. The detections analysed are those of the
\* window.
C23_WindowResolved ==
    (Called("generate_comprehensive_analytics") /\ ~result.raised) =>
        LET period == result.value.analysis_period
        IN  /\ period.end_date =
                   (IF result.args.end_date = None THEN result.args.now
                    ELSE result.args.end_date)
            /\ period.start_date =
                   (IF result.args.start_date = None THEN period.end_date - 30
                    ELSE result.args.start_date)
            /\ period.total_days = period.end_date - period.start_date
            /\ (result.args.start_date = None /\ result.args.end_date = None) =>
                   (period.total_days = 30 /\ period.end_date = result.args.now)
            /\ result.value.summary.total_detections =
                   Cardinality({i \in 1..Len(detections) :
                       /\ Timestamp(detections[i]) >= period.start_date * HoursPerDay
                       /\ Timestamp(detections[i]) <= period.end_date * HoursPerDay})

\* A report of a call with an end date that is not the time of the call and
\* no start date.
C23_Witness ==
    /\ Called("generate_comprehensive_analytics")
    /\ ~result.raised
    /\ result.args.start_date = None
    /\ result.args.end_date # None
    /\ result.args.end_date # result.args.now
    /\ result.value.analysis_period.total_days = 30
    /\ result.value.summary.total_detections > 0

\* C26: when the store answers and the query gives no detection,
\* generate_comprehensive_analytics does not raise: it returns a complete
\* report with total_detections 0, unique_species 0, Shannon and Simpson
\* index 0, no anomaly, no trend, no alert and an empty species breakdown.
C26_EmptyWindowReport ==
    (Called("generate_comprehensive_analytics") /\ db_available /\ Len(Queried) = 0) =>
        /\ ~result.raised
        /\ DOMAIN result.value = ReportSections
        /\ result.value.summary.total_detections = 0
        /\ result.value.summary.unique_species = 0
        /\ result.value.summary.anomalies_detected = 0
        /\ result.value.summary.conservation_alerts = 0
        /\ result.value.biodiversity_metrics.shannon_index = FZero
        /\ result.value.biodiversity_metrics.simpson_index = FZero
        /\ result.value.biodiversity_metrics.species_richness = 0
        /\ result.value.anomalies = [temporal |-> << >>, species |-> << >>]
        /\ result.value.population_trends = << >>
        /\ result.value.conservation_alerts = << >>
        /\ result.value.species_breakdown = << >>

\* A report on a window that holds none of the detections of the store.
C26_Witness ==
    /\ Called("generate_comprehensive_analytics")
    /\ Len(detections) > 0
    /\ Len(Queried) = 0
    /\ ~result.raised
    /\ result.value.summary.total_detections = 0

\* C27: every report generate_comprehensive_analytics returns is consistent
\* with itself: summary.anomalies_detected is the number of temporal plus
\* the number of species anomalies listed; summary.conservation_alerts is
\* the length of the alert list; summary.unique_species is the number of
\* entries of species_breakdown and the species_richness; the counts of the
\* breakdown sum to summary.total_detections; the breakdown is in order of
\* non-increasing count.
C27_ReportConsistent ==
    (Called("generate_comprehensive_analytics") /\ ~result.raised) =>
        /\ result.value.summary.anomalies_detected =
               Len(result.value.anomalies.temporal) + Len(result.value.anomalies.species)
        /\ result.value.summary.conservation_alerts = Len(result.value.conservation_alerts)
        /\ result.value.summary.unique_species = Len(result.value.species_breakdown)
        /\ result.value.summary.unique_species =
               result.value.biodiversity_metrics.species_richness
        /\ SeqSum([k \in 1..Len(result.value.species_breakdown) |->
                      result.value.species_breakdown[k].detection_count])
               = result.value.summary.total_detections
        /\ \A k \in 1..(Len(result.value.species_breakdown) - 1) :
               result.value.species_breakdown[k].detection_count
                   >= result.value.species_breakdown[k + 1].detection_count

\* A report with an anomaly and two species of different counts, the one
\* detected first being the rarer.
C27_Witness ==
    /\ Called("generate_comprehensive_analytics")
    /\ ~result.raised
    /\ result.value.summary.anomalies_detected > 0
    /\ Len(result.value.species_breakdown) = 2
    /\ SpeciesName(Queried[1]) = result.value.species_breakdown[2].species_name
    /\ result.value.species_breakdown[1].detection_count
           > result.value.species_breakdown[2].detection_count

-----------------------------------------------------------------------------
(* Concurrent invocations of generate_comprehensive_analytics on one engine *)

\* The invocations that run at the same time.
Invocations == {1, 2}

\* The detections the store gives an invocation, all of one species and on
\* 5 days or fewer: 2 detections a day, 6 detections on the first day and 1 a
\* day after it, or 1 detection a day on 4 days.
ConcurrentLists ==
    { SeriesDetections(1, 5, 0, 0, 2, 0, 0, 1),
      SeriesDetections(1, 5, 1, 6, 1, 0, 0, 1),
      SeriesDetections(1, 4, 0, 0, 1, 0, 0, 1) }

\* An invocation that has not started. Its locals: the detections of its
\* query, the time it runs at, features_scaled, the days with an
\* anomaly score of -1, and what it returns.
NotStarted ==
    [pc |-> "begin", detections |-> << >>, now |-> 0, features_scaled |-> Unfitted,
     outliers |-> {}, report |-> NoResult]

\* What an invocation returns when the forest scores the days outliers -1.
ReportOf(req, outliers) ==
    generate_comprehensive_analytics(
        [available |-> TRUE, detections |-> req.detections, species |-> Catalog],
        None, None, None, req.now, outliers)

InitConcurrent ==
    /\ species_counts = << >>
    /\ hourly_activity = EmptyDict
    /\ species_trends = << >>
    /\ species_data = Catalog
    /\ detections = << >>
    /\ db_available = TRUE
    /\ anomaly_detector = NewAnomalyDetector
    /\ requests = [r \in Invocations |-> NotStarted]
    /\ earlier = NoResult
    /\ result = NoResult

\* Lines 461-508 and 182-206: the query and the analyzers without state,
\* then the two thresholds of detect_temporal_anomalies.
Begin(r) ==
    /\ requests[r].pc = "begin"
    /\ \E dets \in ConcurrentLists, now \in EngineTimes :
           requests' = [requests EXCEPT ![r] =
               [@ EXCEPT !.detections = dets, !.now = now,
                         !.pc = IF Len(dets) < MinTemporalEvents
                                       \/ Cardinality(DaysOf(dets)) < MinTemporalDays
                                THEN "return" ELSE "scaler_fit"]]
    /\ UNCHANGED <<inputs, db_available, anomaly_detector, earlier, result>>

\* Line 207, self.scaler.fit_transform(features): fit ...
ScalerFit(r) ==
    /\ requests[r].pc = "scaler_fit"
    /\ anomaly_detector' =
           [anomaly_detector EXCEPT !.scaler = DailyFeatures(requests[r].detections)]
    /\ requests' = [requests EXCEPT ![r].pc = "scaler_transform"]
    /\ UNCHANGED <<inputs, db_available, earlier, result>>

\* ... then transform, with what the scaler is fitted on by then.
ScalerTransform(r) ==
    /\ requests[r].pc = "scaler_transform"
    /\ requests' = [requests EXCEPT ![r] =
           [@ EXCEPT !.features_scaled =
                         Scaled(anomaly_detector.scaler, DailyFeatures(requests[r].detections)),
                     !.pc = "forest_fit"]]
    /\ UNCHANGED <<inputs, db_available, anomaly_detector, earlier, result>>

\* Line 210, self.isolation_forest.fit_predict(features_scaled): fit ...
ForestFit(r) ==
    /\ requests[r].pc = "forest_fit"
    /\ anomaly_detector' =
           [anomaly_detector EXCEPT !.isolation_forest = requests[r].features_scaled]
    /\ requests' = [requests EXCEPT ![r].pc = "forest_predict"]
    /\ UNCHANGED <<inputs, db_available, earlier, result>>

\* ... then predict, with what the forest is fitted on by then.
ForestPredictStep(r) ==
    /\ requests[r].pc = "forest_predict"
    /\ \E P \in ForestPredict(anomaly_detector.isolation_forest, requests[r].features_scaled) :
           requests' = [requests EXCEPT ![r] =
               [@ EXCEPT !.outliers =
                             {SortedDays(DaysOf(requests[r].detections))[i] : i \in P},
                         !.pc = "return"]]
    /\ UNCHANGED <<inputs, db_available, anomaly_detector, earlier, result>>

\* Lines 212-552: the loop over daily_stats, the other analyzers and the
\* report.
Return(r) ==
    /\ requests[r].pc = "return"
    /\ requests' = [requests EXCEPT ![r] =
           [@ EXCEPT !.report = [op |-> "generate_comprehensive_analytics"]
                                    @@ ReportOf(requests[r], requests[r].outliers),
                     !.pc = "done"]]
    /\ result' = [op |-> "generate_comprehensive_analytics"]
                     @@ ReportOf(requests[r], requests[r].outliers)
    /\ UNCHANGED <<inputs, db_available, anomaly_detector, earlier>>

NextConcurrent ==
    \E r \in Invocations :
        \/ Begin(r)
        \/ ScalerFit(r)
        \/ ScalerTransform(r)
        \/ ForestFit(r)
        \/ ForestPredictStep(r)
        \/ Return(r)

SpecConcurrent == InitConcurrent /\ [][NextConcurrent]_vars

\* What an invocation can return when no other invocation runs.
ReportsAlone(req) ==
    {[op |-> "generate_comprehensive_analytics"] @@ ReportOf(req, outliers) :
        outliers \in FitPredictOutliers(req.detections)}

\* C19: concurrent invocations on the same engine are independent: what an
\* invocation returns is what it returns when it runs alone, because no
\* component of the engine, the AnomalyDetector included, keeps state that
\* one invocation writes and another reads.
C19_InvocationsIndependent ==
    \A r \in Invocations :
        requests[r].pc = "done" => requests[r].report \in ReportsAlone(requests[r])

-----------------------------------------------------------------------------
(* The analyzers, called twice on the same input *)

\* The detection lists the analyzers are called on twice.
DeterminismLists == EngineLists \cup ConcurrentLists

\* The inputs of all analyzers are taken from one detection list and the
\* catalog, as the engine takes them.
InitDeterminism ==
    /\ detections \in DeterminismLists
    /\ species_data = Catalog
    /\ species_counts = CountValues(SpeciesCountItems(detections))
    /\ hourly_activity = HourlyActivity(detections)
    /\ species_trends = analyze_population_trends(detections).value
    /\ EngineIdle
    /\ result = NoResult

CallTemporalPatterns ==
    /\ result.op = "none"
    /\ result' = [op |-> "analyze_temporal_patterns"] @@ analyze_temporal_patterns(detections)
    /\ UNCHANGED <<inputs, engine>>

\* The days of the records a detect_temporal_anomalies call returned.
OutliersOf(res) == {res.value[k].date : k \in 1..Len(res.value)}

\* The analyzer op called at time now on the inputs, after a call that gave
\* first. The forest is seeded (random_state=42): fitted on the same rows
\* it scores them as it did in the first call.
CalledAgain(first, now) ==
    CASE first.op = "calculate_shannon_index" -> calculate_shannon_index(species_counts)
      [] first.op = "calculate_simpson_index" -> calculate_simpson_index(species_counts)
      [] first.op = "calculate_species_evenness" -> calculate_species_evenness(species_counts)
      [] first.op = "analyze_temporal_patterns" -> analyze_temporal_patterns(detections)
      [] first.op = "detect_species_anomalies" -> detect_species_anomalies(detections)
      [] first.op = "detect_temporal_anomalies" ->
             detect_temporal_anomalies(detections, OutliersOf(first))
      [] first.op = "analyze_population_trends" -> analyze_population_trends(detections)
      [] first.op = "generate_conservation_alerts" ->
             generate_conservation_alerts(species_trends, species_data, now)

\* The caller makes the call it made again, on the same input.
CallAgain ==
    /\ result.op # "none"
    /\ earlier.op = "none"
    /\ earlier' = result
    /\ \E now \in CallTimes :
           result' = [op |-> result.op] @@ CalledAgain(result, now)
    /\ anomaly_detector' =
           IF result.op = "detect_temporal_anomalies"
           THEN DetectorAfterTemporal(anomaly_detector, detections)
           ELSE anomaly_detector
    /\ UNCHANGED <<inputs, db_available, requests>>

NextDeterminism ==
    \/ CallShannon
    \/ CallSimpson
    \/ CallEvenness
    \/ CallTemporalPatterns
    \/ CallDetectSpecies
    \/ CallDetectTemporal
    \/ CallAnalyzeTrends
    \/ CallGenerateAlerts
    \/ CallAgain

SpecDeterminism == InitDeterminism /\ [][NextDeterminism]_vars

\* C20: every analyzer is deterministic in its input: for a fixed detection
\* list and species catalog, two calls of an analyzer return identical
\* outputs, whatever the times of the calls and the calls made before.
C20_AnalyzersDeterministic ==
    earlier.op # "none" => result = earlier

-----------------------------------------------------------------------------
(* analyze_temporal_patterns on detections of several hours *)

MaxPatternEvents == 5

\* The hours of the detections: one of dawn, one of day, one of dusk, one of
\* night.
PatternHours == {5, 13, 18, 23}

\* The detection lists: up to MaxPatternEvents detections of one species on
\* one day, at any hours in any order.
PatternLists ==
    {[i \in 1..Len(hours) |->
         [species_id |-> 1, confidence |-> HighConfidence, day |-> 1, hour |-> hours[i]]] :
        hours \in SeqsUpTo(PatternHours, MaxPatternEvents)}

InitPatterns ==
    /\ species_counts = << >>
    /\ hourly_activity = EmptyDict
    /\ species_trends = << >>
    /\ species_data = << >>
    /\ detections \in PatternLists
    /\ EngineIdle
    /\ result = NoResult

NextPatterns == CallTemporalPatterns

SpecPatterns == InitPatterns /\ [][NextPatterns]_vars

\* The number of detections at hour h.
EventsAt(h) == Cardinality({i \in 1..Len(detections) : detections[i].hour = h})

\* The hours with a detection.
ActiveHours == {detections[i].hour : i \in 1..Len(detections)}

\* Hour g comes before hour h in the order of the peak hours: more
\* detections, or as many and earlier.
PeakBefore(g, h) == EventsAt(g) > EventsAt(h) \/ (EventsAt(g) = EventsAt(h) /\ g < h)

\* C21: the peak hours of analyze_temporal_patterns are the (at most 3)
\* hours with the most detections, by falling count and, among hours of
\* equal count, the earlier hour first; no hour without a detection is
\* listed.
C21_PeakHoursOrdered ==
    (Called("analyze_temporal_patterns") /\ Len(detections) > 0) =>
        LET peak == result.value.peak_activity_hours
        IN  /\ ~result.raised
            /\ Len(peak) = Min2(3, Cardinality(ActiveHours))
            /\ \A k \in 1..Len(peak) : peak[k] \in ActiveHours
            /\ \A k \in 1..(Len(peak) - 1) : PeakBefore(peak[k], peak[k + 1])
            /\ \A h \in ActiveHours \ Range(peak) :
                   \A k \in 1..Len(peak) : PeakBefore(peak[k], h)

\* Four hours have detections, the busiest is not the earliest, and the hour
\* left out has as many detections as the last hour listed.
C21_Witness ==
    /\ Called("analyze_temporal_patterns")
    /\ ~result.raised
    /\ Cardinality(ActiveHours) = 4
    /\ Len(result.value.peak_activity_hours) = 3
    /\ result.value.peak_activity_hours[1] > result.value.peak_activity_hours[2]
    /\ \E h \in ActiveHours \ Range(result.value.peak_activity_hours) :
           EventsAt(h) = EventsAt(result.value.peak_activity_hours[3])

\* The fields of the dict analyze_temporal_patterns builds.
PatternFields ==
    {"hourly_activity", "peak_activity_hours", "activity_type", "seasonal_patterns",
     "behavior_patterns"}

\* C22: for every detection list, the empty list included,
\* analyze_temporal_patterns raises nothing and returns a report with the
\* hourly histogram, the peak hours, the classification label, the seasonal
\* breakdown and the behavior histogram; with no detections the report is
\* empty-shaped and its classification is 'unknown'.
C22_ReportAlwaysShaped ==
    Called("analyze_temporal_patterns") =>
        /\ ~result.raised
        /\ DOMAIN result.value = PatternFields
        /\ Len(detections) = 0 =>
               /\ result.value.activity_type = "unknown"
               /\ result.value.peak_activity_hours = << >>

-----------------------------------------------------------------------------
(* get_real_time_insights on stores with old and recent detections *)

MaxRecent == 11

\* count detections of one species in one hour of one day.
HourDetections(species_id, day, hour, count) ==
    [c \in 1..count |->
        [species_id |-> species_id, confidence |-> HighConfidence,
         day |-> day, hour |-> hour]]

\* The stored detections: 0 or 5 at noon of day 9, 0 or 1 at the start of
\* day 10 and up to MaxRecent at the start of day 11, of a named species or
\* of none. The engine is called at the start of day 11 or of day 12.
InsightLists ==
    {HourDetections(who, 9, 12, old) \o HourDetections(who, 10, 0, edge)
         \o HourDetections(who, 11, 0, recent) :
        who \in {1, None}, old \in {0, 5}, edge \in {0, 1}, recent \in 0..MaxRecent}

InitInsights ==
    /\ species_counts = << >>
    /\ hourly_activity = EmptyDict
    /\ species_trends = << >>
    /\ species_data = Catalog
    /\ detections \in InsightLists
    /\ db_available \in BOOLEAN
    /\ anomaly_detector = NewAnomalyDetector
    /\ requests = << >>
    /\ earlier = NoResult
    /\ result = NoResult

NextInsights == CallRealTimeInsights

SpecInsights == InitInsights /\ [][NextInsights]_vars

\* The number of stored detections whose image is at most 24 hours older
\* than the call.
RecentCount ==
    Cardinality({i \in 1..Len(detections) :
        Timestamp(detections[i]) >= result.args.now * HoursPerDay - 24})

\* The keys of the dict get_real_time_insights returns.
InsightFields ==
    {"timestamp", "recent_detections", "active_species", "biodiversity_index",
     "top_species", "activity_level"}

\* C24: get_real_time_insights considers only the detections of the last 24
\* hours, runs neither the trend analyzer nor an anomaly detector, and labels
\* the activity level from the number n of those detections: 'high' when
\* n > 10, 'moderate' when 3 < n <= 10, 'low' when n <= 3.
C24_RecentInsights ==
    (Called("get_real_time_insights") /\ db_available) =>
        /\ ~result.raised
        /\ DOMAIN result.value = InsightFields
        /\ result.value.recent_detections = RecentCount
        /\ result.value.activity_level =
               (IF RecentCount > 10 THEN "high"
                ELSE IF RecentCount > 3 THEN "moderate" ELSE "low")
        /\ anomaly_detector = NewAnomalyDetector

\* Ten detections of the last 24 hours, one of them exactly 24 hours old,
\* in a store that holds older ones.
C24_Witness ==
    /\ Called("get_real_time_insights")
    /\ db_available
    /\ Len(detections) = 15
    /\ \E i \in 1..Len(detections) :
           Timestamp(detections[i]) = result.args.now * HoursPerDay - 24
    /\ result.value.recent_detections = 10
    /\ result.value.activity_level = "moderate"

-----------------------------------------------------------------------------
(* generate_comprehensive_analytics statement by statement, on a store that *)
(* the detection pipeline writes to meanwhile                               *)

MaxStored == 12

\* The detections the store holds when the call starts: none, or 2 a day of
\* one species on 5 days.
SnapshotLists == {<< >>, SeriesDetections(1, 5, 0, 0, 2, 0, 0, 1)}

\* The detection the pipeline stores next.
NewDetection == [species_id |-> 1, confidence |-> HighConfidence, day |-> 10, hour |-> 12]

\* The statements of the try block that call an analyzer, in order.
AnalyzerSteps == <<"biodiversity", "activity", "temporal", "species", "trends", "alerts">>

\* The invocation before its first statement. Its locals: detections,
\* species_data and the results of the analyzers so far. fetches counts the
\* query.all() calls for detections; seen is what the store held then.
SnapshotStart ==
    [pc |-> "query", now |-> 0, fetches |-> 0, seen |-> << >>, detections |-> << >>,
     species_data |-> << >>, results |-> << >>, report |-> NoResult]

InitSnapshot ==
    /\ species_counts = << >>
    /\ hourly_activity = EmptyDict
    /\ species_trends = << >>
    /\ species_data = Catalog
    /\ detections \in SnapshotLists
    /\ db_available = TRUE
    /\ anomaly_detector = NewAnomalyDetector
    /\ requests = <<SnapshotStart>>
    /\ earlier = NoResult
    /\ result = NoResult

\* The pipeline stores a detection.
StoreInsert ==
    /\ Len(detections) < MaxStored
    /\ detections' = Append(detections, NewDetection)
    /\ UNCHANGED <<species_counts, hourly_activity, species_trends, species_data,
                   engine, result>>

\* Lines 461-480: the window, then detections = query.all().
QueryStep(r) ==
    /\ requests[r].pc = "query"
    /\ \E now \in EngineTimes :
           requests' = [requests EXCEPT ![r] =
               [@ EXCEPT !.now = now,
                         !.fetches = @ + 1,
                         !.seen = detections,
                         !.detections = WindowDetections(Store, None, None, now),
                         !.pc = "species_query"]]
    /\ UNCHANGED <<inputs, db_available, anomaly_detector, earlier, result>>

\* Lines 483-490: species_data = species_query.all().
SpeciesQueryStep(r) ==
    /\ requests[r].pc = "species_query"
    /\ requests' = [requests EXCEPT ![r] =
           [@ EXCEPT !.species_data = SpeciesQuery(Store, requests[r].detections, None),
                     !.pc = AnalyzerSteps[1]]]
    /\ UNCHANGED <<inputs, db_available, anomaly_detector, earlier, result>>

\* The detections an analyzer is given re-read from the store.
AnalyzerInputRefetched(req, store) == WindowDetections(store, None, None, req.now)

\* The detections an analyzer is given: the local variable detections.
AnalyzerInput(req, store) == req.detections

\* What the statement step of the try block computes on the detections dets.
AnalyzerResult(step, req, dets, outliers) ==
    CASE step = "biodiversity" -> BiodiversityMetrics(SpeciesCountItems(dets))
      [] step = "activity" -> analyze_temporal_patterns(dets)
      [] step = "temporal" -> detect_temporal_anomalies(dets, outliers)
      [] step = "species" -> detect_species_anomalies(dets)
      [] step = "trends" -> analyze_population_trends(dets)
      [] step = "alerts" ->
             generate_conservation_alerts(req.results.trends.value, req.species_data, req.now)

\* The statement after step.
StepAfter(step) ==
    IF step = AnalyzerSteps[Len(AnalyzerSteps)] THEN "return"
    ELSE AnalyzerSteps[1 + CHOOSE k \in 1..Len(AnalyzerSteps) : AnalyzerSteps[k] = step]

\* Lines 492-520: one statement that calls an analyzer; an exception ends
\* the call.
AnalyzerStep(r) ==
    /\ requests[r].pc \in Range(AnalyzerSteps)
    /\ \E dets \in {AnalyzerInput(requests[r], Store)} :
           /\ \E outliers \in (IF requests[r].pc = "temporal"
                                THEN FitPredictOutliers(dets) ELSE {{}}) :
                  \E res \in {AnalyzerResult(requests[r].pc, requests[r], dets, outliers)} :
                      requests' = [requests EXCEPT ![r] =
                          [@ EXCEPT !.results = (requests[r].pc :> res) @@ @,
                                    !.report = IF res.raised THEN res ELSE @,
                                    !.pc = IF res.raised THEN "done" ELSE StepAfter(@)]]
           /\ anomaly_detector' =
                  IF requests[r].pc = "temporal"
                  THEN DetectorAfterTemporal(anomaly_detector, dets)
                  ELSE anomaly_detector
    /\ UNCHANGED <<inputs, db_available, earlier, result>>

\* Lines 522-552: return {...}.
ReturnStep(r) ==
    /\ requests[r].pc = "return"
    /\ \E rep \in {Returned(Report(requests[r].detections,
                                     WindowOf(None, None, requests[r].now).start,
                                     WindowOf(None, None, requests[r].now).end,
                                     requests[r].results.biodiversity.value,
                                     requests[r].results.activity.value,
                                     requests[r].results.temporal.value,
                                     requests[r].results.species.value,
                                     requests[r].results.trends.value,
                                     requests[r].results.alerts.value))} :
           /\ requests' = [requests EXCEPT ![r] = [@ EXCEPT !.report = rep, !.pc = "done"]]
           /\ result' = [op |-> "generate_comprehensive_analytics",
                         args |-> [organization_id |-> None, start_date |-> None,
                                   end_date |-> None, now |-> requests[r].now]] @@ rep
    /\ UNCHANGED <<inputs, db_available, anomaly_detector, earlier>>

NextSnapshot ==
    \/ StoreInsert
    \/ \E r \in DOMAIN requests :
           \/ QueryStep(r)
           \/ SpeciesQueryStep(r)
           \/ AnalyzerStep(r)
           \/ ReturnStep(r)

SpecSnapshot == InitSnapshot /\ [][NextSnapshot]_vars

\* The detections of the window of invocation req in the store as it was
\* when req made its query.
SnapshotOf(req) ==
    WindowDetections([Store EXCEPT !.detections = req.seen], None, None, req.now)

\* C25: within one invocation of generate_comprehensive_analytics the
\* detections are fetched from the store exactly once, before any analyzer
\* runs; every analyzer is given that same snapshot, unchanged, whatever is
\* stored meanwhile; no step fetches again or changes a record of the store.
C25_SingleSnapshot ==
    \A r \in DOMAIN requests :
        /\ requests[r].fetches = (IF requests[r].pc = "query" THEN 0 ELSE 1)
        /\ requests[r].pc = "query" => requests[r].results = << >>
        /\ requests[r].pc # "query" =>
               /\ requests[r].detections = SnapshotOf(requests[r])
               /\ SubSeq(detections, 1, Len(requests[r].seen)) = requests[r].seen
        /\ requests[r].pc = "done" =>
               \E outliers \in FitPredictOutliers(SnapshotOf(requests[r])) :
                   requests[r].report =
                       AnalyzeSnapshot(SnapshotOf(requests[r]),
                                       SpeciesQuery(Store, SnapshotOf(requests[r]), None),
                                       WindowOf(None, None, requests[r].now).start,
                                       WindowOf(None, None, requests[r].now).end,
                                       requests[r].now, outliers)

\* A call returned its report after the pipeline stored detections between
\* its query and its last analyzer.
C25_Witness ==
    /\ requests[1].pc = "done"
    /\ ~requests[1].report.raised
    /\ Len(requests[1].seen) = 10
    /\ Len(detections) > Len(requests[1].seen)
    /\ requests[1].report.value.summary.total_detections = 10

-----------------------------------------------------------------------------
(* generate_conservation_alerts on the trends analyze_population_trends gives *)

\* population_trends and species_data as the engine passes them on.
InitTrendAlerts ==
    /\ species_counts = << >>
    /\ hourly_activity = EmptyDict
    /\ detections \in SeriesLists
    /\ species_trends = analyze_population_trends(detections).value
    /\ species_data = Catalog
    /\ EngineIdle
    /\ result = NoResult

NextTrendAlerts == CallGenerateAlerts

SpecTrendAlerts == InitTrendAlerts /\ [][NextTrendAlerts]_vars

\* C29: when generate_conservation_alerts is given the trends
\* analyze_population_trends computed, a trend whose p-value is above 0.05
\* has a confidence level of at most 45, so it never gets a "critical"
\* alert; the only alert it can get is the "high" one of Rule B, also when
\* its species is endangered.
C29_NonSignificantNeverCritical ==
    Called("generate_conservation_alerts") =>
        /\ \A t \in Range(species_trends) :
               t.statistical_measures.p_value_above_005 =>
                   /\ t.confidence_level <= Hundredths(45)
                   /\ AlertsOn(t, "critical") = 0
                   /\ AllAlertsOn(t) = (IF RuleB(t) THEN 1 ELSE 0)
        /\ \A i \in 1..Len(result.value) :
               result.value[i].trend_data.statistical_measures.p_value_above_005 =>
                   /\ result.value[i].severity = "high"
                   /\ result.value[i].alert_type = "behavioral_anomaly"

\* A decreasing trend of an endangered and protected species with a p-value
\* above 0.05 got the "high" alert.
C29_Witness ==
    /\ Called("generate_conservation_alerts")
    /\ Len(result.value) = 1
    /\ result.value[1].severity = "high"
    /\ result.value[1].trend_data.statistical_measures.p_value_above_005
    /\ Profile(result.value[1].species_id).is_endangered
    /\ result.value[1].trend_data.confidence_level > 0

=============================================================================
